---- MODULE Spec2Model ----
(***************************************************************************)
(* Model of the daily site-report bot: the Observation Store (sqlite       *)
(* tables of src/src/models.py), the ingestion handlers and the report     *)
(* pipeline of src/src/main.py, and the remote adapters of                 *)
(* src/src/weather.py, src/src/openproject.py and src/src/ai_engine.py.    *)
(*                                                                         *)
(* Every `await` of the source is a suspension point: a handler is cut     *)
(* into one action per stretch of code between two awaits that touch       *)
(* shared state (the store, the adapters).                                 *)
(***************************************************************************)
EXTENDS Integers, Sequences, FiniteSets, TLC

\* ---------------------------------------------------------------- bounds
NumRuns == 2          \* pipeline runs (job callbacks) that may be triggered
MaxIngest == 2        \* photo updates delivered to handle_photo in a behaviour
MaxInitCount == 1     \* Report Counter value already stored at start (0: no row)
MaxTs == 1            \* distinct wall-clock seconds the runs may observe

Runs == 1..NumRuns
UIDs == {"u1", "u2"}              \* file_unique_id values of the upload source
Captions == {"", "cap"}           \* update.message.caption (None or text)
Timestamps == 0..MaxTs
ThisMonth == "2026-02"            \* now.strftime("%Y-%m"): one month key
None == "None"                    \* Python's None, where the value is a string
NoRow == <<>>                     \* Python's None, where the value is a row/object:
                                  \* an optional object is a sequence of length <= 1

\* ------------------------------------------------------ the environment
VARIABLE scenario    \* what the environment of this behaviour may do

\* The environment of a behaviour is fixed at its start; each kind is explored
\* on its own. Every kind delivers photo updates and triggers runs; they
\* differ in how many, in whether job callbacks may be in flight together and
\* in which collaborators may fail.
\*   "ingest"     photo updates of every shape; download and store may fail;
\*                one run.
\*   "upstream"   runs that do not overlap; weather, tracker, summarizer,
\*                analyzer, renderer and the chat API may fail.
\*   "analysis"   runs that do not overlap; the analyzer and the store's
\*                commits may fail.
\*   "concurrent" runs that overlap; the browser may fail to launch at
\*                startup, the renderer's pages may fail and midnight may
\*                pass during a run; nothing else fails.
Scenarios == {"ingest", "upstream", "analysis", "concurrent"}

Overlap == scenario = "concurrent"
FaultClasses ==
  CASE scenario = "ingest" -> {"download", "db"}
    [] scenario = "upstream" -> {"weather", "tracker", "summarizer", "analyzer",
                             "renderer", "telegram"}
    [] scenario = "analysis" -> {"analyzer", "db"}
    [] OTHER -> {"startup", "renderer"}
MayFail(c) == c \in FaultClasses
\* runs the environment triggers
Triggered == IF scenario = "ingest" THEN {1} ELSE Runs
\* photo updates the environment delivers
IngestBudget == IF scenario \in {"ingest", "analysis"} THEN MaxIngest ELSE 1
IngestUIDs == IF scenario \in {"ingest", "analysis"} THEN UIDs ELSE {"u1"}
IngestCaptions == IF scenario = "ingest" THEN Captions ELSE {""}

\* ------------------------------------------------------------ the store
VARIABLES
  report_counters,   \* table report_counters: sequence of rows
  photo_metadata,    \* table photo_metadata: sequence of rows (index = id)
  chat_logs          \* table chat_logs: sequence of rows

\* --------------------------------------------------- ingestion (ghost)
VARIABLES
  ingested,          \* number of updates (photos, texts) handled so far
  handled,           \* ghost: per unique id, the handle_photo calls that ended
  photoReply,        \* per unique id: the last reply of handle_photo for it
  logReturns         \* save_log calls of handle_message that returned normally

\* ------------------------------------------- one generate_daily_report
VARIABLES
  pc,                \* position of each run
  counter,           \* generate_report_id: the row the select returned
  report_id,
  chat_content,
  weather_current,
  projects_summary,
  photos_db,         \* rows the photo select returned (the session's objects)
  idx,               \* index of the loop `for p in photos_db`
  dirty,             \* rows changed in the session and not yet flushed
  photos_data,
  data,              \* the document handed to the renderer
  pdf_path,
  failedAt,          \* the step whose exception reached the handler at 277
  artifacts,         \* files written by the renderer
  sent               \* documents sent, per run

\* ----------------------------------------------------- ghost counters
VARIABLES
  analyzerCalls,     \* per unique id: calls of the vision model for a photo
  analysisFailed,    \* per run: unique ids whose lazy analysis failed in it
  weatherFailed,     \* per run: the weather collaborator failed on every call
  steps              \* per run: the steps of the pipeline it entered, in order

\* ------------------------------------------- the renderer and the jobs
VARIABLES
  app,               \* "starting" until post_init has returned, then "running"
  browser,           \* pdf_generator.browser: 0 while the attribute is unset,
                     \* else the number of the launch that produced the handle
  browserLaunches,   \* chromium.launch calls that returned a browser
  pages,             \* the pages of the browser that are open
  page,              \* per run: the page its generate_report call holds, or 0
  pagesOpened,       \* browser.new_page calls that returned a page
  started,           \* per trigger: entries into the job callback
  renders,           \* per trigger: the calls of pdf_generator.generate_report
  loop               \* the run whose synchronous call holds the thread of the
                     \* event loop, or 0 when the loop is free to run a task

\* --------------------------------------------------------- the settings
VARIABLES
  bot_settings,      \* table bot_settings: sequence of rows (key, value)
  setCalls,          \* number of /set_safety_channel commands handled
  lastSet,           \* ghost: the chat of the latest set that was committed
  settingsReply,     \* the reply to the latest /set_safety_channel
  tip                \* the latest safety tip sent: its chat, and lastSet then

\* ------------------------------------------------- the tracker adapter
VARIABLES
  project_identifier, \* self.project_identifier: the token of the URL, or None
  project_id,         \* self.project_id: the cached id, 0 while it is None
  listings,           \* GET /api/v3/projects requests made so far
  fetches             \* the attempts of get_work_packages made so far

\* ------------------------------------------- the adapters on their own
VARIABLE adapterCall \* the adapter call made last: what the remote end did on
                     \* each attempt, the attempts made, what the caller got

storeVars == <<report_counters, photo_metadata, chat_logs>>
envVars == <<scenario, adapterCall>>
ingestVars == <<ingested, handled, photoReply, logReturns>>
localVars == <<chat_content, weather_current, projects_summary, photos_db,
               idx, dirty, photos_data, data, pdf_path>>
runVars == <<pc, counter, report_id, localVars, failedAt, artifacts, sent>>
ghostVars == <<analyzerCalls, analysisFailed, weatherFailed, steps>>
rendererVars == <<app, browser, browserLaunches, pages, page, pagesOpened>>
jobVars == <<started, renders, loop>>
settingsVars == <<bot_settings, setCalls, lastSet, settingsReply, tip>>
trackerVars == <<project_identifier, project_id, listings, fetches>>
vars == <<storeVars, envVars, settingsVars, trackerVars, rendererVars, jobVars, ingestVars, runVars,
          ghostVars>>

\* ------------------------------------------------------- store helpers
\* A row of photo_metadata (models.py:29-38); analysis "" is "not analyzed".
PhotoRow(u, cap) == [file_unique_id |-> u, caption |-> cap, analysis |-> ""]

\* The same INSERT into a table whose file_unique_id column is not unique.
InsertPhotoNotUnique(table, row) == [ok |-> TRUE, table |-> Append(table, row)]

\* session.add + commit of a PhotoMetadata row: file_unique_id is unique=True,
\* so the INSERT of an id already stored raises IntegrityError.
InsertPhoto(table, row) ==
  IF \E i \in DOMAIN table : table[i].file_unique_id = row.file_unique_id
  THEN [ok |-> FALSE, table |-> table]
  ELSE [ok |-> TRUE, table |-> Append(table, row)]

\* session.add + commit of a ReportCounter row: month_key is unique=True.
InsertCounter(table, row) ==
  IF \E i \in DOMAIN table : table[i].month_key = row.month_key
  THEN [ok |-> FALSE, table |-> table]
  ELSE [ok |-> TRUE, table |-> Append(table, row)]

\* select(ReportCounter).where(month_key == key) ... scalar_one_or_none()
SelectCounter(table, key) ==
  IF \E i \in DOMAIN table : table[i].month_key = key
  THEN LET i == CHOOSE j \in DOMAIN table : table[j].month_key = key
       IN <<[id |-> i, count |-> table[i].count]>>
  ELSE NoRow

\* What the environment may do to a commit, a download, a render, a send:
\* TRUE is success.
Outcomes(class) == IF MayFail(class) THEN {TRUE, FALSE} ELSE {TRUE}

\* ------------------------------------------------------ report identity
RECURSIVE Digits(_)
Digits(n) == IF n < 10 THEN <<n>> ELSE Append(Digits(n \div 10), n % 10)

\* f"{count:03d}": decimal digits, zero-padded on the left to 3 places
Pad3(n) ==
  LET d == Digits(n)
  IN IF Len(d) >= 3 THEN d ELSE [i \in 1..(3 - Len(d)) |-> 0] \o d

\* f"BN-{month_str}-{year_str}-{counter.count:03d}"
FormatReportId(n) == <<"BN", "FEB", "26", Pad3(n)>>
\* f"BN-ERR-{int(datetime.now().timestamp())}"
ErrorReportId(ts) == <<"BN", "ERR", Digits(ts)>>

\* ===================================================== remote adapters
\* What one HTTP GET of an adapter can do: answer, or raise. The two aiohttp
\* classes are subclasses of aiohttp.ClientError; the other two are not.
RemoteOutcomes == {"ok", "ClientResponseError", "ClientConnectionError",
                   "TimeoutError", "JSONDecodeError"}
IsClientError(exc) == exc \in {"ClientResponseError", "ClientConnectionError"}

\* The result of one call of a Python function: it returns or it raises.
Return(v) == [kind |-> "return", exc |-> "", value |-> v]
Raise(e, v) == [kind |-> "raise", exc |-> e, value |-> v]

\* stop=stop_after_attempt(3)
StopAfterAttempt == 3

\* The decision of a policy that retries on every exception.
TenacityDecideAnyException(res, k) ==
  IF res.kind = "raise"
  THEN IF k >= StopAfterAttempt THEN "RetryError" ELSE "retry"
  ELSE "finish"

\* tenacity's decision after attempt number k of the wrapped function ended
\* with res: retry=retry_if_exception_type(aiohttp.ClientError), no reraise.
TenacityDecide(res, k) ==
  IF res.kind = "raise" /\ IsClientError(res.exc)
  THEN IF k >= StopAfterAttempt THEN "RetryError" ELSE "retry"
  ELSE "finish"

\* wait=wait_exponential(multiplier=1, min=2, max=10): the seconds tenacity
\* sleeps after attempt number k failed. The installed release decides the
\* exponent: exp_base ** (k - 1) in the releases that start at the
\* multiplier, exp_base ** k in the older ones.
WAIT_MULTIPLIER == 1
WAIT_MIN == 2
WAIT_MAX == 10
TenacityReleases == {"exponent_from_0", "exponent_from_1"}
Max(a, b) == IF a >= b THEN a ELSE b
Min(a, b) == IF a <= b THEN a ELSE b
wait_exponential(release, k) ==
  LET exp == IF release = "exponent_from_0" THEN 2 ^ (k - 1) ELSE 2 ^ k
  IN Max(Max(0, WAIT_MIN), Min(WAIT_MULTIPLIER * exp, WAIT_MAX))

\* The decorated function as a whole: results[k] is what attempt k of the body
\* does. Gives the number of attempts made and what the caller gets.
RECURSIVE RetryFrom(_, _)
RetryFrom(results, k) ==
  LET d == TenacityDecide(results[k], k)
  IN IF d = "retry" THEN RetryFrom(results, k + 1)
     ELSE [attempts |-> k,
           outcome |-> IF d = "RetryError"
                       THEN Raise("RetryError", results[k].value)
                       ELSE results[k]]
RetryCall(results) == RetryFrom(results, 1)

\* ---- weather.py
WeatherData == "weather_data"     \* the enriched JSON payload
ForecastData == "forecast_data"

\* A body without the `except Exception`: the error leaves the function.
CurrentWeatherBodyRaising(o) ==
  IF o = "ok" THEN Return(WeatherData) ELSE Raise(o, None)

\* Body of get_current_weather: `except Exception: ... return None`
CurrentWeatherBody(o) == IF o = "ok" THEN Return(WeatherData) ELSE Return(None)
\* Body of get_forecast: `except Exception: ... return None`
ForecastBody(o) == IF o = "ok" THEN Return(ForecastData) ELSE Return(None)

get_current_weather(env) ==
  RetryCall([k \in 1..StopAfterAttempt |-> CurrentWeatherBody(env[k])])
get_forecast(env) ==
  RetryCall([k \in 1..StopAfterAttempt |-> ForecastBody(env[k])])

\* check_severe_conditions. The hour is datetime.now(baghdad_tz).hour; wind
\* is current['wind']['speed'] in tenths of a m/s (0 when the key is absent);
\* pops are the 'pop' of the forecast's 'list' entries, in percent.
Hours == {0, 5, 6, 14, 21, 22, 23}
WindSpeeds == {0, 83, 84, 111}
Pops == {20, 50, 90}
ForecastLists ==
  {<<>>} \cup {<<a>> : a \in Pops} \cup {<<a, b>> : a \in Pops, b \in Pops}
         \cup {<<a, b, 90>> : a \in Pops, b \in {20, 90}}

\* A window that never suppresses.
NeverQuiet(hour) == FALSE

\* `22 <= current_hour or current_hour < 6`
InQuietWindow(hour) == 22 <= hour \/ hour < 6

\* speed * 3.6, in hundredths of a km/h
WindKmhX100(wind) == wind * 36
\* f"{wind_speed:.1f}": rounded to tenths of a km/h
FormatOneDecimal(x100) == (x100 + 5) \div 10
WindAlert(wind) == <<"wind", FormatOneDecimal(WindKmhX100(wind))>>
RainAlert(pop) == <<"rain", pop>>

\* The whole list, where the code takes the first two entries.
WholeList(list) == list

\* forecast.get('list', [])[:2]
FirstTwo(list) == SubSeq(list, 1, IF Len(list) < 2 THEN Len(list) ELSE 2)

\* The loop over the entries: the alert of the first with pop > 50, then break
RECURSIVE RainAlerts(_)
RainAlerts(list) ==
  IF list = <<>> THEN <<>>
  ELSE IF Head(list) > 50 THEN <<RainAlert(Head(list))>>
       ELSE RainAlerts(Tail(list))

\* check_severe_conditions as a whole: the calls it makes of the two weather
\* functions, the alerts in order, and what it returns ("\n".join(alerts), or
\* None when there is none).
check_severe_conditions(hour, envC, wind, envF, pops) ==
  LET skipWind == InQuietWindow(hour)
      current == get_current_weather(envC).outcome
      forecast == get_forecast(envF).outcome
  IN IF ~skipWind /\ current.kind = "raise" THEN [calls |-> <<"current">>,
                                                  alerts |-> <<>>,
                                                  outcome |-> current]
     ELSE IF forecast.kind = "raise"
          THEN [calls |-> IF skipWind THEN <<"forecast">> ELSE <<"current", "forecast">>,
                alerts |-> <<>>, outcome |-> forecast]
     ELSE LET windAlerts ==
                IF ~skipWind /\ current.value # None /\ WindKmhX100(wind) > 3000
                THEN <<WindAlert(wind)>> ELSE <<>>
              rainAlerts ==
                IF forecast.value # None THEN RainAlerts(FirstTwo(pops)) ELSE <<>>
              alerts == windAlerts \o rainAlerts
          IN [calls |-> IF skipWind THEN <<"forecast">> ELSE <<"current", "forecast">>,
              alerts |-> alerts,
              outcome |-> Return(IF alerts = <<>> THEN NoRow ELSE <<alerts>>)]

\* ---- openproject.py
\* Strings whose characters matter are sequences of one-character strings.
\* The status titles the tracker may send (_links.status.title; the last is
\* the default "" of a missing title).
StInProgress == <<"I", "n", " ", "P", "r", "o", "g", "r", "e", "s", "s">>
StInProgressRev == <<"I", "n", " ", "P", "r", "o", "g", "r", "e", "s", "s", " ", "(", "r", "e", "v", ")">>
StInProgressUpper == <<"I", "N", " ", "P", "R", "O", "G", "R", "E", "S", "S">>
StNew == <<"N", "e", "w">>
StClosed == <<"C", "l", "o", "s", "e", "d">>
StClosedPadded == <<" ", "C", "l", "o", "s", "e", "d", " ">>
StOnHold == <<"O", "n", " ", "H", "o", "l", "d">>
StRejected == <<"r", "e", "j", "e", "c", "t", "e", "d">>
StCompleted == <<"C", "o", "m", "p", "l", "e", "t", "e", "d">>
StNoTitle == <<>>
Statuses == {StInProgress, StInProgressRev, StInProgressUpper, StNew, StClosed,
             StClosedPadded, StOnHold, StRejected, StCompleted, StNoTitle}
\* startDate as sent: absent/null (""), two ISO dates, one text that
\* "%Y-%m-%d" does not parse
StartDates == {"", "2026-02-10", "2026-02-03", "10/02/2026"}
\* One element of data["_embedded"]["elements"]. shape "dict" is a JSON object
\* with its _links.status; "links_null" an object whose _links is null;
\* "not_dict" a JSON value that is no object (string, number, null, list).
Pkg(i, st, sd) == [id |-> i, status |-> st, startDate |-> sd, shape |-> "dict"]
BadPkg(i, shape) == [id |-> i, status |-> <<>>, startDate |-> "", shape |-> shape]
\* The lists a fetch may return (data["_embedded"]["elements"]).
FetchedLists ==
  {<<>>} \cup {<<Pkg(1, st, sd)>> : st \in Statuses, sd \in StartDates}
         \cup {<<Pkg(1, StNew, "2026-02-10"), Pkg(2, st, "2026-02-03")>> :
                 st \in {StInProgress, StNew, StClosed}}
         \cup {<<Pkg(1, StNew, "10/02/2026"), Pkg(2, StInProgressRev, "")>>,
               <<BadPkg(1, "links_null"), Pkg(2, StNew, "2026-02-03")>>,
               <<BadPkg(1, "not_dict"), Pkg(2, StNew, "2026-02-03")>>,
               <<Pkg(1, StInProgress, ""), BadPkg(2, "not_dict")>>,
               <<Pkg(1, StNew, "2026-02-10"), Pkg(2, StOnHold, "2026-02-03"),
                 Pkg(3, StNoTitle, "2026-02-10"), Pkg(4, StNew, "2026-02-03")>>,
               <<Pkg(1, StNew, "2026-02-10"), Pkg(2, StNew, "2026-2-4")>>,
               <<Pkg(1, StNew, "2026-02-30"), Pkg(2, StNew, "2026-02-03")>>}

\* Body of get_work_packages: `except Exception as e: ... raise e`
WorkPackagesBody(o, elements) ==
  IF o = "ok" THEN Return(elements) ELSE Raise(o, <<>>)

get_work_packages(env, elements) ==
  RetryCall([k \in 1..StopAfterAttempt |-> WorkPackagesBody(env[k], elements)])

\* str.lower(), character by character
UpperAlpha == <<"A", "B", "C", "D", "E", "F", "G", "H", "I", "J", "K", "L", "M",
                "N", "O", "P", "Q", "R", "S", "T", "U", "V", "W", "X", "Y", "Z">>
LowerAlpha == <<"a", "b", "c", "d", "e", "f", "g", "h", "i", "j", "k", "l", "m",
                "n", "o", "p", "q", "r", "s", "t", "u", "v", "w", "x", "y", "z">>
LowerChar(c) ==
  IF \E i \in DOMAIN UpperAlpha : UpperAlpha[i] = c
  THEN LowerAlpha[CHOOSE i \in DOMAIN UpperAlpha : UpperAlpha[i] = c]
  ELSE c
Lower(st) == [i \in DOMAIN st |-> LowerChar(st[i])]

\* str.strip(): without its leading and trailing blanks
RECURSIVE LStrip(_)
LStrip(st) == IF st # <<>> /\ Head(st) = " " THEN LStrip(Tail(st)) ELSE st
RECURSIVE RStrip(_)
RStrip(st) ==
  IF st # <<>> /\ st[Len(st)] = " " THEN RStrip(SubSeq(st, 1, Len(st) - 1)) ELSE st
Strip(st) == RStrip(LStrip(st))

\* `sub in text` for strings
Contains(text, sub) ==
  \E i \in 1..(Len(text) - Len(sub) + 1) : SubSeq(text, i, i + Len(sub) - 1) = sub

\* A test for the whole status being "in progress" (no substring match).
EqualsInProgress(lower) ==
  lower = <<"i", "n", " ", "p", "r", "o", "g", "r", "e", "s", "s">>

\* "in progress" in status_lower
ContainsInProgress(lower) ==
  Contains(lower, <<"i", "n", " ", "p", "r", "o", "g", "r", "e", "s", "s">>)
\* ["closed", "rejected", "completed", "on hold"]
ClosedSet == {<<"c", "l", "o", "s", "e", "d">>,
              <<"r", "e", "j", "e", "c", "t", "e", "d">>,
              <<"c", "o", "m", "p", "l", "e", "t", "e", "d">>,
              <<"o", "n", " ", "h", "o", "l", "d">>}

\* The characters of the date texts of the model.
Chars(text) ==
  CASE text = "2026-02-03" -> <<"2", "0", "2", "6", "-", "0", "2", "-", "0", "3">>
    [] text = "2026-02-10" -> <<"2", "0", "2", "6", "-", "0", "2", "-", "1", "0">>
    [] text = "2026-2-4" -> <<"2", "0", "2", "6", "-", "2", "-", "4">>
    [] text = "10/02/2026" -> <<"1", "0", "/", "0", "2", "/", "2", "0", "2", "6">>
    [] text = "2026-02-30" -> <<"2", "0", "2", "6", "-", "0", "2", "-", "3", "0">>
    [] text = "9999-12-31" -> <<"9", "9", "9", "9", "-", "1", "2", "-", "3", "1">>
    [] OTHER -> <<>>

DigitChars == {"0", "1", "2", "3", "4", "5", "6", "7", "8", "9"}
\* ord(ch) for the characters of date texts
Ord(ch) ==
  CASE ch = "-" -> 45 [] ch = "/" -> 47
    [] ch = "0" -> 48 [] ch = "1" -> 49 [] ch = "2" -> 50 [] ch = "3" -> 51
    [] ch = "4" -> 52 [] ch = "5" -> 53 [] ch = "6" -> 54 [] ch = "7" -> 55
    [] ch = "8" -> 56 [] ch = "9" -> 57
\* int() of a run of digits
RECURSIVE NumberOf(_)
NumberOf(chs) ==
  IF chs = <<>> THEN 0
  ELSE 10 * NumberOf(SubSeq(chs, 1, Len(chs) - 1)) + (Ord(chs[Len(chs)]) - 48)
AllDigits(chs) == \A i \in DOMAIN chs : chs[i] \in DigitChars

\* text.split(sep)
RECURSIVE SplitOn(_, _)
SplitOn(chs, sep) ==
  IF \E i \in DOMAIN chs : chs[i] = sep
  THEN LET i == CHOOSE k \in DOMAIN chs :
                  chs[k] = sep /\ \A j \in 1..(k - 1) : chs[j] # sep
       IN <<SubSeq(chs, 1, i - 1)>> \o SplitOn(SubSeq(chs, i + 1, Len(chs)), sep)
  ELSE <<chs>>

IsLeap(y) == (y % 4 = 0 /\ y % 100 # 0) \/ y % 400 = 0
DaysIn(y, m) ==
  IF m = 2 THEN (IF IsLeap(y) THEN 29 ELSE 28)
  ELSE IF m \in {4, 6, 9, 11} THEN 30 ELSE 31

\* datetime.strptime(s, "%Y-%m-%d").date(): %Y is four digits, %m and %d one
\* or two digits (a leading zero is optional), the whole text must match, and
\* the day must exist; anything else is a ValueError.
ParseDate(d) ==
  LET f == SplitOn(Chars(d), "-")
  IN IF /\ Len(f) = 3
        /\ Len(f[1]) = 4 /\ AllDigits(f[1])
        /\ Len(f[2]) \in {1, 2} /\ AllDigits(f[2]) /\ NumberOf(f[2]) \in 1..12
        /\ Len(f[3]) \in {1, 2} /\ AllDigits(f[3])
        /\ NumberOf(f[3]) \in 1..DaysIn(NumberOf(f[1]), NumberOf(f[2]))
     THEN Return(<<NumberOf(f[1]), NumberOf(f[2]), NumberOf(f[3])>>)
     ELSE Raise("ValueError", <<>>)

\* a < b for two Python strings: the first differing code point decides, a
\* proper prefix is smaller
RECURSIVE StrLess(_, _)
StrLess(a, b) ==
  IF b = <<>> THEN FALSE
  ELSE IF a = <<>> THEN TRUE
  ELSE IF Ord(Head(a)) # Ord(Head(b)) THEN Ord(Head(a)) < Ord(Head(b))
  ELSE StrLess(Tail(a), Tail(b))

\* key=lambda x: x["startDate"] or "9999-12-31"
SortKey(item) ==
  IF item.startDate = "" THEN Chars("9999-12-31") ELSE Chars(item.startDate)

\* list.sort(key=startDate): stable insertion of x into a sorted list
RECURSIVE InsertSorted(_, _)
InsertSorted(sorted, x) ==
  IF sorted = <<>> THEN <<x>>
  ELSE IF StrLess(SortKey(x), SortKey(Head(sorted)))
       THEN <<x>> \o sorted
       ELSE <<Head(sorted)>> \o InsertSorted(Tail(sorted), x)
RECURSIVE SortByStart(_)
SortByStart(items) ==
  IF items = <<>> THEN <<>>
  ELSE InsertSorted(SortByStart(SubSeq(items, 1, Len(items) - 1)),
                    items[Len(items)])

EmptySummary == [active |-> <<>>, incoming |-> <<>>]

\* The dict `item` of lines 137-143
Item(pkg) ==
  [id |-> pkg.id, status |-> Strip(pkg.status), startDate |-> pkg.startDate]

\* The body of the loop for one pkg: the bucket it goes to ("active",
\* "incoming", "neither"); "skipped" when the try block raised and the handler
\* at 156-158 logged it; "raised" when the handler itself raised: its warning
\* evaluates pkg.get('id'), which a value that is no dict does not have.
ClassifyOne(pkg) ==
  IF pkg.shape = "not_dict" THEN "raised"
  ELSE IF pkg.shape = "links_null" THEN "skipped"
  ELSE LET status_lower == Lower(Strip(pkg.status))
       IN IF pkg.startDate # "" /\ ParseDate(pkg.startDate).kind = "raise"
          THEN "skipped"
          ELSE IF ContainsInProgress(status_lower) THEN "active"
          ELSE IF status_lower \notin ClosedSet /\ pkg.startDate # ""
               THEN "incoming"
               ELSE "neither"

\* The loop `for pkg in packages` of get_summary.
RECURSIVE Classify(_, _)
Classify(packages, summary) ==
  IF packages = <<>> THEN Return(summary)
  ELSE LET pkg == Head(packages)
           bucket == ClassifyOne(pkg)
       IN IF bucket = "raised" THEN Raise("AttributeError", summary)
          ELSE Classify(Tail(packages),
                 CASE bucket = "active" ->
                        [summary EXCEPT !.active = Append(@, Item(pkg))]
                   [] bucket = "incoming" ->
                        [summary EXCEPT !.incoming = Append(@, Item(pkg))]
                   [] OTHER -> summary)

\* get_summary without the try/except around the fetch.
get_summary_propagating(env, elements) ==
  LET fetch == get_work_packages(env, elements).outcome
  IN IF fetch.kind = "raise"
     THEN fetch
     ELSE LET s == Classify(fetch.value, EmptySummary)
          IN IF s.kind = "raise" THEN s
             ELSE Return([s.value EXCEPT !.incoming = SortByStart(@)])

\* get_summary: `except Exception: return summary` around the fetch, then the
\* loop and the sort
get_summary(env, elements) ==
  LET fetch == get_work_packages(env, elements).outcome
  IN IF fetch.kind = "raise"
     THEN Return(EmptySummary)
     ELSE LET s == Classify(fetch.value, EmptySummary)
          IN IF s.kind = "raise" THEN s
             ELSE Return([s.value EXCEPT !.incoming = SortByStart(@)])

\* ---- ai_engine.py
\* What one call of the generative service can do.
AiOutcomes == {"ok", "bad_status", "exception"}
\* analyze_site_data: the model's text, or one of its two apology strings
analyze_site_data(o) ==
  CASE o = "ok" -> "analysis text"
    [] o = "bad_status" -> "system error: response.message"
    [] o = "exception" -> "error while analyzing the data"

\* A Python value json.loads may give: a dict (its items), or something else.
Dict(items) == [type |-> "dict", items |-> items]
NonDict == [type |-> "list", items |-> {}]
DictGet(d, key, default) ==
  IF \E kv \in d.items : kv[1] = key
  THEN (CHOOSE kv \in d.items : kv[1] = key)[2]
  ELSE default

default_response ==
  Dict({<<"site_manpower_machinery", "<ul><li>no data</li></ul>">>,
        <<"site_activities", "<ul><li>no activities</li></ul>">>})

\* What the summary call can do: answer JSON that is the expected object, an
\* object without the keys, valid JSON that is no object, text that is no
\* JSON, a non-OK status, or raise.
SummaryOutcomes == {"object", "object_no_keys", "not_object", "bad_json",
                    "bad_status", "exception"}
summarize_logs(chat_logs_text, o) ==
  IF chat_logs_text = <<>> THEN default_response
  ELSE CASE o = "object" ->
              Dict({<<"site_manpower_machinery", "<ul>crew</ul>">>,
                    <<"site_activities", "<ul>work</ul>">>})
         [] o = "object_no_keys" -> Dict({})
         [] o = "not_object" -> NonDict
         [] OTHER -> default_response

\* ================================================================= Init
InitStore ==
  /\ \E c \in 0..MaxInitCount :
       report_counters = IF c = 0 THEN <<>>
                         ELSE <<[month_key |-> ThisMonth, count |-> c]>>
  /\ photo_metadata = <<>>
  /\ chat_logs = <<>>

InitIngest ==
  /\ ingested = 0
  /\ handled = [u \in UIDs |-> 0]
  /\ photoReply = [u \in UIDs |-> ""]
  /\ logReturns = 0

InitRuns ==
  /\ pc = [r \in Runs |-> "idle"]
  /\ counter = [r \in Runs |-> NoRow]
  /\ report_id = [r \in Runs |-> <<>>]
  /\ chat_content = [r \in Runs |-> <<>>]
  /\ weather_current = [r \in Runs |-> None]
  /\ projects_summary = [r \in Runs |-> <<>>]
  /\ photos_db = [r \in Runs |-> <<>>]
  /\ idx = [r \in Runs |-> 0]
  /\ dirty = [r \in Runs |-> {}]
  /\ photos_data = [r \in Runs |-> <<>>]
  /\ data = [r \in Runs |-> <<>>]
  /\ pdf_path = [r \in Runs |-> <<>>]
  /\ failedAt = [r \in Runs |-> None]
  /\ artifacts = {}
  /\ sent = [r \in Runs |-> <<>>]

InitGhost ==
  /\ analyzerCalls = [u \in UIDs |-> 0]
  /\ analysisFailed = [r \in Runs |-> {}]
  /\ weatherFailed = [r \in Runs |-> FALSE]
  /\ steps = [r \in Runs |-> <<>>]

InitEnv ==
  /\ scenario \in Scenarios
  /\ adapterCall = <<>>

\* PDFGenerator.__init__ sets no browser attribute; nothing has run yet.
InitRenderer ==
  /\ app = "starting"
  /\ browser = 0
  /\ browserLaunches = 0
  /\ pages = {}
  /\ page = [r \in Runs |-> 0]
  /\ pagesOpened = 0
  /\ started = [r \in Runs |-> 0]
  /\ renders = [r \in Runs |-> <<>>]
  /\ loop = 0

\* No setting is stored before the first /set_safety_channel.
InitSettings ==
  /\ bot_settings = <<>>
  /\ setCalls = 0
  /\ lastSet = <<>>
  /\ settingsReply = ""
  /\ tip = <<>>

\* OpenProjectClient.__init__: the identifier is the path segment after
\* /projects in OPENPROJECT_URL, None when the URL has none; no id is cached.
PROJECT_IDENTIFIER == "nawas-tower"
InitTracker ==
  /\ project_identifier \in {None, PROJECT_IDENTIFIER}
  /\ project_id = 0
  /\ listings = 0
  /\ fetches = <<>>

Init ==
  /\ InitStore /\ InitEnv /\ InitSettings /\ InitTracker /\ InitRenderer /\ InitIngest
  /\ InitRuns /\ InitGhost

\* ============================================================ post_init
\* Application start-up: init_db, then pdf_generator.start_browser. A launch
\* that raises is logged ("Partial Mode") and the bot starts all the same,
\* with no browser attribute on the generator.
post_init(launched) ==
  /\ app = "starting"
  /\ app' = "running"
  /\ browser' = IF launched THEN browserLaunches + 1 ELSE browser
  /\ browserLaunches' = IF launched THEN browserLaunches + 1 ELSE browserLaunches
  /\ UNCHANGED <<storeVars, envVars, settingsVars, trackerVars, jobVars, ingestVars, runVars,
                 ghostVars, pages, page, pagesOpened>>

\* ============================================ the steps and the thread
\* A run enters a step of the pipeline: Numbering (generate_report_id),
\* Collecting (logs, weather, tracker, photo records), Analyzing (a call of
\* analyze_site_data), Summarizing (summarize_logs), Assembled (the dict
\* `data`), Rendered (pdf_generator.generate_report).
Enter(s, step) == IF s # <<>> /\ s[Len(s)] = step THEN s ELSE Append(s, step)

\* ai_engine's methods are plain functions that call the SDK's blocking
\* MultiModalConversation.call / Generation.call on the thread of the event
\* loop: from the call until it returns, no other task of the loop runs.
LoopFree == loop = 0

\* ======================================================= handle_message
\* The texts users write
Texts == {"poured slab B2"}

\* A row of chat_logs for a text message (models.py:8-18)
TextRow(text) == [message |-> <<text>>]

\* save_log: the ChatLog row is added and committed; a commit that raises is
\* logged and save_log returns all the same. handle_message then returns.
handle_message(text, committed) ==
  /\ app = "running"
  /\ LoopFree
  /\ ingested < IngestBudget
  /\ ingested' = ingested + 1
  /\ chat_logs' = IF committed THEN Append(chat_logs, TextRow(text)) ELSE chat_logs
  /\ logReturns' = logReturns + 1
  /\ UNCHANGED <<report_counters, photo_metadata, handled, photoReply, envVars, settingsVars, trackerVars,
                 rendererVars, jobVars, runVars, ghostVars>>

\* ========================================================= handle_photo
\* One photo update: download, the caption's ChatLog row, the PhotoMetadata
\* row, the replies. downloaded = FALSE is get_file/download_to_drive raising;
\* a commit that raises is logged and the handler goes on.
PHOTO_SAVED == "Photo saved."
PHOTO_FAILED == "Failed to process photo."

handle_photo(u, cap, downloaded, captionCommit, photoCommit) ==
  /\ app = "running"
  /\ LoopFree
  /\ ingested < IngestBudget
  /\ ingested' = ingested + 1
  /\ handled' = [handled EXCEPT ![u] = @ + 1]
  /\ photoReply' = [photoReply EXCEPT ![u] =
                      IF downloaded THEN PHOTO_SAVED ELSE PHOTO_FAILED]
  /\ UNCHANGED logReturns
  /\ IF ~downloaded
     THEN UNCHANGED <<photo_metadata, chat_logs>>
     ELSE LET ins == InsertPhoto(photo_metadata, PhotoRow(u, cap))
          IN /\ chat_logs' =
                  IF cap # "" /\ captionCommit
                  THEN Append(chat_logs, [message |-> <<"[PHOTO CAPTION]: ", cap>>])
                  ELSE chat_logs
             /\ photo_metadata' = IF photoCommit THEN ins.table ELSE photo_metadata
  /\ UNCHANGED <<report_counters, envVars, settingsVars, trackerVars, rendererVars, jobVars, runVars, ghostVars>>

\* ======================================================== manual_report
\* Config.ADMIN_IDS, and who may send /report
ADMIN_IDS == {"admin"}
Users == {"admin", "guest"}

\* A message of the bot in a chat: a text or a document.
Text(t) == [kind |-> "text", text |-> t, path |-> <<>>, filename |-> <<>>]
Doc(path, filename) ==
  [kind |-> "document", text |-> "", path |-> path, filename |-> filename]
DENIED_TEXT == "admins only"
ACK_TEXT == "preparing report"

\* /report handled with no test of the sender.
manual_report_for_anyone(r, user, replied) ==
  /\ app = "running"
  /\ LoopFree
  /\ pc[r] = "idle"
  /\ r \in Triggered
  /\ IF ~replied
     THEN /\ pc' = [pc EXCEPT ![r] = "dropped"]
          /\ UNCHANGED sent
     ELSE /\ pc' = [pc EXCEPT ![r] = "scheduled"]
          /\ sent' = [sent EXCEPT ![r] = Append(@, Text(ACK_TEXT))]
  /\ UNCHANGED <<storeVars, envVars, settingsVars, trackerVars, rendererVars, jobVars,
                 ingestVars, counter, report_id, localVars, failedAt, artifacts,
                 ghostVars>>

\* /report from `user` in the chat of trigger r: anyone but an admin gets the
\* denial; an admin gets the acknowledgement and generate_daily_report is
\* queued once (run_once) for that chat. A reply that raises ends the handler
\* before anything is queued.
manual_report(r, user, replied) ==
  /\ app = "running"
  /\ LoopFree
  /\ pc[r] = "idle"
  /\ r \in Triggered
  /\ IF ~replied
     THEN /\ pc' = [pc EXCEPT ![r] = "dropped"]
          /\ UNCHANGED sent
     ELSE IF user \notin ADMIN_IDS
     THEN /\ pc' = [pc EXCEPT ![r] = "denied"]
          /\ sent' = [sent EXCEPT ![r] = Append(@, Text(DENIED_TEXT))]
     ELSE /\ pc' = [pc EXCEPT ![r] = "scheduled"]
          /\ sent' = [sent EXCEPT ![r] = Append(@, Text(ACK_TEXT))]
  /\ UNCHANGED <<storeVars, envVars, settingsVars, trackerVars, rendererVars, jobVars, ingestVars, counter,
                 report_id, localVars, failedAt, artifacts, ghostVars>>

\* =================================================== generate_report_id
InFlight(r) ==
  pc[r] \notin {"idle", "dropped", "denied", "scheduled", "done", "errored"}

\* The job callback is entered: generate_daily_report starts with
\* generate_report_id, whose first await is the select of the counter row.
generate_report_id_select(r) ==
  /\ pc[r] = "scheduled"
  /\ LoopFree
  /\ started' = [started EXCEPT ![r] = @ + 1]
  /\ steps' = [steps EXCEPT ![r] = Enter(@, "Numbering")]
  /\ Overlap \/ \A q \in Runs \ {r} : ~InFlight(q)
  /\ counter' = [counter EXCEPT ![r] = SelectCounter(report_counters, ThisMonth)]
  /\ pc' = [pc EXCEPT ![r] = "numbering"]
  /\ UNCHANGED <<storeVars, envVars, settingsVars, trackerVars, rendererVars, renders, loop,
                 ingestVars, report_id, localVars, failedAt, artifacts, sent,
                 analyzerCalls, analysisFailed, weatherFailed>>

\* `if not counter: add a row with count=0`, `counter.count += 1`, commit.
\* The flush writes the value computed from the row as it was selected.
CounterCommit(table, c) ==
  IF c = NoRow
  THEN LET ins == InsertCounter(table, [month_key |-> ThisMonth, count |-> 0 + 1])
       IN [ok |-> ins.ok, table |-> ins.table, count |-> 1]
  ELSE [ok |-> TRUE,
        table |-> [table EXCEPT ![c[1].id].count = c[1].count + 1],
        count |-> c[1].count + 1]

\* The commit and the return: the formatted identity, or on any exception
\* the error identity built from the clock.
generate_report_id_commit(r, committed, ts) ==
  /\ pc[r] = "numbering"
  /\ LoopFree
  /\ LET w == CounterCommit(report_counters, counter[r])
     IN IF committed /\ w.ok
        THEN /\ report_counters' = w.table
             /\ report_id' = [report_id EXCEPT ![r] = FormatReportId(w.count)]
        ELSE /\ report_counters' = report_counters
             /\ report_id' = [report_id EXCEPT ![r] = ErrorReportId(ts)]
  /\ counter' = [counter EXCEPT ![r] = NoRow]
  /\ pc' = [pc EXCEPT ![r] = "read_logs"]
  /\ UNCHANGED <<photo_metadata, chat_logs, envVars, settingsVars, trackerVars, rendererVars, jobVars, ingestVars, localVars,
                 failedAt, artifacts, sent, ghostVars>>

\* ================================================ generate_daily_report
\* What the remote end does on the attempts of one adapter call of a run: the
\* same on every attempt, or a transient error that recovers.
AllOk == [k \in 1..StopAfterAttempt |-> "ok"]
Envs ==
  {[k \in 1..StopAfterAttempt |-> o] :
     o \in {"ok", "ClientConnectionError", "TimeoutError"}}
  \cup {[k \in 1..StopAfterAttempt |->
           IF k <= n THEN "ClientConnectionError" ELSE "ok"] : n \in 1..2}
RunEnvs(class) == IF MayFail(class) THEN Envs ELSE {AllOk}
\* The work-item lists the tracker answers a run with.
RunLists ==
  {<<>>, <<Pkg(1, StInProgress, "2026-02-03"), Pkg(2, StNew, "2026-02-10")>>}
  \cup (IF MayFail("tracker")
        THEN {<<BadPkg(1, "not_dict"), Pkg(2, StNew, "2026-02-03")>>}
        ELSE {})
RunAiOutcomes == IF MayFail("analyzer") THEN AiOutcomes ELSE {"ok"}
RunSummaryOutcomes == IF MayFail("summarizer") THEN SummaryOutcomes ELSE {"object"}

FAILED_MARKER == "Analysis failed during report generation."
Today == "2026-02-14"             \* datetime.now().strftime("%Y-%m-%d")

\* The callback is left, by return or through `except Exception` (which only
\* logs): its locals are gone. report_id, failedAt and sent stay as the
\* record of what the run did.
Leave(r, outcome, step) ==
  /\ pc' = [pc EXCEPT ![r] = outcome]
  /\ failedAt' = [failedAt EXCEPT ![r] = step]
  /\ chat_content' = [chat_content EXCEPT ![r] = <<>>]
  /\ weather_current' = [weather_current EXCEPT ![r] = None]
  /\ projects_summary' = [projects_summary EXCEPT ![r] = <<>>]
  /\ photos_db' = [photos_db EXCEPT ![r] = <<>>]
  /\ idx' = [idx EXCEPT ![r] = 0]
  /\ dirty' = [dirty EXCEPT ![r] = {}]
  /\ photos_data' = [photos_data EXCEPT ![r] = <<>>]
  /\ data' = [data EXCEPT ![r] = <<>>]
  /\ pdf_path' = [pdf_path EXCEPT ![r] = <<>>]

\* select(ChatLog).where(timestamp >= today_start): the joined lines, or the
\* placeholder when there are none
generate_daily_report_logs(r) ==
  /\ pc[r] = "read_logs"
  /\ LoopFree
  /\ steps' = [steps EXCEPT ![r] = Enter(@, "Collecting")]
  /\ chat_content' = [chat_content EXCEPT ![r] =
        IF chat_logs # <<>>
        THEN [i \in DOMAIN chat_logs |-> chat_logs[i].message]
        ELSE <<<<"No logs recorded today.">>>>]
  /\ pc' = [pc EXCEPT ![r] = "weather"]
  /\ UNCHANGED <<storeVars, envVars, settingsVars, trackerVars, rendererVars, jobVars, ingestVars, counter, report_id, weather_current,
                 projects_summary, photos_db, idx, dirty, photos_data, data,
                 pdf_path, failedAt, artifacts, sent, analyzerCalls, analysisFailed, weatherFailed>>

\* weather_current = await weather_client.get_current_weather()
generate_daily_report_weather(r, env) ==
  /\ pc[r] = "weather"
  /\ LoopFree
  /\ steps' = [steps EXCEPT ![r] = Enter(@, "Collecting")]
  /\ LET res == get_current_weather(env).outcome
     IN IF res.kind = "raise"
        THEN Leave(r, "errored", "weather")
        ELSE /\ pc' = [pc EXCEPT ![r] = "projects"]
             /\ weather_current' = [weather_current EXCEPT ![r] = res.value]
             /\ UNCHANGED <<failedAt, chat_content, projects_summary, photos_db,
                            idx, dirty, photos_data, data, pdf_path>>
  /\ weatherFailed' = [weatherFailed EXCEPT ![r] =
                         \A k \in DOMAIN env : env[k] # "ok"]
  /\ UNCHANGED <<storeVars, envVars, settingsVars, trackerVars, rendererVars, jobVars, ingestVars, counter, report_id, artifacts, sent,
                 analyzerCalls, analysisFailed>>

\* projects_summary = await openproject_client.get_summary()
generate_daily_report_projects(r, env, elements) ==
  /\ pc[r] = "projects"
  /\ LoopFree
  /\ steps' = [steps EXCEPT ![r] = Enter(@, "Collecting")]
  /\ LET res == get_summary(env, elements)
     IN IF res.kind = "raise"
        THEN Leave(r, "errored", "projects")
        ELSE /\ pc' = [pc EXCEPT ![r] = "photo_select"]
             /\ projects_summary' = [projects_summary EXCEPT ![r] = <<res.value>>]
             /\ UNCHANGED <<failedAt, chat_content, weather_current, photos_db,
                            idx, dirty, photos_data, data, pdf_path>>
  /\ UNCHANGED <<storeVars, envVars, settingsVars, trackerVars, rendererVars, jobVars, ingestVars, counter, report_id, artifacts, sent,
                 analyzerCalls, analysisFailed, weatherFailed>>

\* select(PhotoMetadata).where(date_str == date_str): the session's objects
generate_daily_report_photo_select(r) ==
  /\ pc[r] = "photo_select"
  /\ LoopFree
  /\ steps' = [steps EXCEPT ![r] = Enter(@, "Collecting")]
  /\ photos_db' = [photos_db EXCEPT ![r] =
        [i \in DOMAIN photo_metadata |->
           [id |-> i,
            file_unique_id |-> photo_metadata[i].file_unique_id,
            caption |-> photo_metadata[i].caption,
            analysis |-> photo_metadata[i].analysis]]]
  /\ idx' = [idx EXCEPT ![r] = 1]
  /\ pc' = [pc EXCEPT ![r] = "photos"]
  /\ UNCHANGED <<storeVars, envVars, settingsVars, trackerVars, rendererVars, jobVars, ingestVars, counter, report_id, chat_content,
                 weather_current, projects_summary, dirty, photos_data, data,
                 pdf_path, failedAt, artifacts, sent, analyzerCalls, analysisFailed, weatherFailed>>

\* `if not p.analysis`
NeedsAnalysis(p) == p.analysis = ""

\* What `p.analysis = ai_engine.analyze_site_data(...)` assigns.
LazyAnalysis(o) == analyze_site_data(o)

\* The UPDATEs one successful flush of run r's session writes: the row being
\* analyzed gets `text`, the rows left changed by the handler at 234-236 get
\* the marker they were assigned.
FlushAnalysis(table, id, text, pending) ==
  [i \in DOMAIN table |->
     IF i = id THEN [table[i] EXCEPT !.analysis = text]
     ELSE IF i \in pending THEN [table[i] EXCEPT !.analysis = FAILED_MARKER]
     ELSE table[i]]

PhotoView(p, analysis) ==
  [file_unique_id |-> p.file_unique_id, analysis |-> analysis,
   caption |-> p.caption]

\* What `await session.commit()` of the loop can do: commit; raise from the
\* flush, which rolls the session back and expires its objects; or raise from
\* the COMMIT itself, which leaves the objects as they are.
CommitOutcomes ==
  IF MayFail("db") THEN {"committed", "rolled_back", "not_committed"}
  ELSE {"committed"}

\* `p.analysis = ai_engine.analyze_site_data(...)` of line 227 is entered:
\* the vision model is called on the thread of the loop.
generate_daily_report_photo_call(r) ==
  /\ pc[r] = "photos"
  /\ idx[r] <= Len(photos_db[r])
  /\ NeedsAnalysis(photos_db[r][idx[r]])
  /\ LoopFree
  /\ loop' = r
  /\ steps' = [steps EXCEPT ![r] = Enter(@, "Analyzing")]
  /\ UNCHANGED <<storeVars, envVars, settingsVars, trackerVars, rendererVars, started, renders,
                 ingestVars, runVars, analyzerCalls, analysisFailed, weatherFailed>>

\* One iteration of `for p in photos_db`: the lazy analysis with its commit,
\* then the view-model. On a commit that raises, the handler at 234-236
\* assigns the marker to the object and nothing writes it; building the
\* view-model then reads p.file_path, which on an expired object raises
\* (there is no implicit IO under asyncio) and ends the run at 277.
generate_daily_report_photo(r, o, c) ==
  /\ pc[r] = "photos"
  /\ idx[r] <= Len(photos_db[r])
  /\ loop = IF NeedsAnalysis(photos_db[r][idx[r]]) THEN r ELSE 0
  /\ loop' = 0
  /\ LET p == photos_db[r][idx[r]]
         u == p.file_unique_id
         text == LazyAnalysis(o)
         inMemory == IF ~NeedsAnalysis(p) THEN p.analysis
                     ELSE IF c = "committed" THEN text ELSE FAILED_MARKER
     IN /\ IF NeedsAnalysis(p)
           THEN /\ analyzerCalls' = [analyzerCalls EXCEPT ![u] = @ + 1]
                /\ analysisFailed' =
                     IF o # "ok" \/ c # "committed"
                     THEN [analysisFailed EXCEPT ![r] = @ \cup {u}]
                     ELSE analysisFailed
                /\ photo_metadata' =
                     IF c = "committed"
                     THEN FlushAnalysis(photo_metadata, p.id, text, dirty[r])
                     ELSE photo_metadata
           ELSE UNCHANGED <<analyzerCalls, analysisFailed, photo_metadata>>
        /\ IF NeedsAnalysis(p) /\ c = "rolled_back"
           THEN Leave(r, "errored", "photos")
           ELSE /\ dirty' = [dirty EXCEPT ![r] =
                     IF ~NeedsAnalysis(p) THEN @
                     ELSE IF c = "committed" THEN {} ELSE @ \cup {p.id}]
                /\ photos_db' = [photos_db EXCEPT ![r][idx[r]].analysis = inMemory]
                /\ photos_data' = [photos_data EXCEPT ![r] =
                                     Append(@, PhotoView(p, inMemory))]
                /\ idx' = [idx EXCEPT ![r] = @ + 1]
                /\ UNCHANGED <<pc, failedAt, chat_content, weather_current,
                               projects_summary, data, pdf_path>>
  /\ UNCHANGED <<report_counters, chat_logs, envVars, settingsVars, trackerVars, rendererVars,
                 started, renders, ingestVars, counter, report_id, artifacts,
                 sent, weatherFailed, steps>>

\* site_summary_data.get(key, ''): AttributeError unless the value is a dict
SummaryGet(d, key) ==
  IF d.type = "dict" THEN Return(DictGet(d, key, "")) ELSE Raise("AttributeError", "")

\* A dict built field by field, a field without content left out.
DocumentOmittingEmpty(rid, weather, projects, mm, act, analysis, photos) ==
  IF photos = <<>>
  THEN [date |-> Today, report_id |-> rid,
        weather |-> [current |-> weather, forecast |-> <<>>],
        projects |-> projects, site_manpower_machinery |-> mm,
        site_activities |-> act, analysis |-> analysis]
  ELSE [date |-> Today, report_id |-> rid,
        weather |-> [current |-> weather, forecast |-> <<>>],
        projects |-> projects, site_manpower_machinery |-> mm,
        site_activities |-> act, analysis |-> analysis, photos |-> photos]

\* The dict `data` of lines 259-271
Document(rid, weather, projects, mm, act, analysis, photos) ==
  [date |-> Today,
   report_id |-> rid,
   weather |-> [current |-> weather, forecast |-> <<>>],
   projects |-> projects,
   site_manpower_machinery |-> mm,
   site_activities |-> act,
   analysis |-> analysis,
   photos |-> photos]

\* Once the loop `for p` is over (its session closed): summarize_logs of
\* line 248 is entered, the text model is called on the thread of the loop.
generate_daily_report_summarize_call(r) ==
  /\ pc[r] = "photos"
  /\ idx[r] > Len(photos_db[r])
  /\ LoopFree
  /\ loop' = r
  /\ steps' = [steps EXCEPT ![r] = Enter(@, "Summarizing")]
  /\ UNCHANGED <<storeVars, envVars, settingsVars, trackerVars, rendererVars, started, renders,
                 ingestVars, runVars, analyzerCalls, analysisFailed, weatherFailed>>

\* summarize_logs returns, then the overall analyze_site_data of line 253
\* and the dict `data`; no await separates them, what the session of the
\* photos had not flushed is dropped.
generate_daily_report_assemble(r, so, ao) ==
  /\ pc[r] = "photos"
  /\ idx[r] > Len(photos_db[r])
  /\ loop = r
  /\ loop' = 0
  /\ LET site_summary_data == summarize_logs(chat_content[r], so)
         mm == SummaryGet(site_summary_data, "site_manpower_machinery")
         act == SummaryGet(site_summary_data, "site_activities")
     IN IF mm.kind = "raise" \/ act.kind = "raise"
        THEN /\ Leave(r, "errored", "assemble")
             /\ steps' = [steps EXCEPT ![r] = Enter(@, "Analyzing")]
        ELSE /\ steps' = [steps EXCEPT ![r] =
                             Enter(Enter(@, "Analyzing"), "Assembled")]
             /\ data' = [data EXCEPT ![r] =
                  <<Document(report_id[r], weather_current[r],
                             projects_summary[r][1], mm.value, act.value,
                             analyze_site_data(ao), photos_data[r])>>]
             /\ dirty' = [dirty EXCEPT ![r] = {}]
             /\ pc' = [pc EXCEPT ![r] = "render"]
             /\ UNCHANGED <<failedAt, chat_content, weather_current,
                            projects_summary, photos_db, idx, photos_data,
                            pdf_path>>
  /\ UNCHANGED <<storeVars, envVars, settingsVars, trackerVars, rendererVars, started, renders,
                 ingestVars, counter, report_id, artifacts, sent,
                 analyzerCalls, analysisFailed, weatherFailed>>

\* A path namespaced by the date alone.
OutputPathOfDate(date_str, rid) ==
  <<"data", "reports", date_str, <<"Site_Report_", <<>>, ".pdf">>>>

\* A file name made of the timestamp, as if the document carried no
\* report_id.
OutputPathOfTimestamp(date_str, rid) ==
  <<"data", "reports", date_str, <<"Site_Report_", <<"20260214120000">>, ".pdf">>>>

\* os.path.join(output_dir, date_str, f"Site_Report_{report_id}.pdf")
OutputPath(date_str, rid) ==
  <<"data", "reports", date_str, <<"Site_Report_", rid, ".pdf">>>>

\* datetime.now() as pdf_generator.generate_report reads it: the day of the
\* run or, when midnight has passed since the run began, the day after.
Tomorrow == "2026-02-15"
ClockDates == IF Overlap THEN {Today, Tomorrow} ELSE {Today}

\* data.get('report_id', <timestamp>)
ReportIdOf(doc) ==
  IF "report_id" \in DOMAIN doc THEN doc.report_id ELSE <<"20260214120000">>

\* A renderer that swallowed the exception of the page and returned the
\* path it meant to write.
generate_report_swallowing(doc, date_str, ok) ==
  Return(OutputPath(date_str, ReportIdOf(doc)))

\* What pdf_generator.generate_report gives its caller once a browser is
\* there: the output path, or the exception of the page (set_content,
\* add_style_tag, pdf) after `finally` has closed the page.
generate_report(doc, date_str, ok) ==
  IF ok
  THEN Return(OutputPath(date_str, ReportIdOf(doc)))
  ELSE Raise("Error", <<>>)

\* page = await self.browser.new_page(): a page no other call holds
new_page(opened) == opened + 1
\* A close that is skipped when the page raised.
page_close_on_success(open, p, ok) == IF ok THEN open \ {p} ELSE open
\* `finally: await page.close()`: the open pages once the call is over
page_close(open, p, ok) == open \ {p}

\* One call of the renderer as the run saw it.
RenderCall(doc, date_str, ok, handle) ==
  [date |-> date_str, rid |-> ReportIdOf(doc), ok |-> ok, browser |-> handle,
   path |-> IF ok THEN OutputPath(date_str, ReportIdOf(doc)) ELSE <<>>]

\* pdf_path = await pdf_generator.generate_report(data), one stretch between
\* awaits at a time:
\*   "render"     the test of the browser attribute; without a browser the
\*                call goes into start_browser and waits there ("launching");
\*   "launching"  chromium.launch returns the browser (and the call goes on
\*                to the page, "rendering") or raises;
\*   "rendering"  or "render" with a browser: browser.new_page() returns
\*                the call's page ("printing") or raises;
\*   "printing"   the page is filled and printed to the output path, or an
\*                exception of set_content, add_style_tag or pdf leaves the
\*                callback through `except Exception`; either way `finally`
\*                closes the page first.
\* ok is whether the awaited operation of the stretch succeeded.
generate_daily_report_render(r, ok, date_str) ==
  /\ pc[r] \in {"render", "launching", "rendering", "printing"}
  /\ LoopFree
  /\ steps' = [steps EXCEPT ![r] = Enter(@, "Rendered")]
  /\ IF pc[r] = "render" /\ browser = 0
     THEN /\ pc' = [pc EXCEPT ![r] = "launching"]
          /\ UNCHANGED <<browser, browserLaunches, renders, artifacts, failedAt,
                         localVars, pages, page, pagesOpened>>
     ELSE IF pc[r] = "launching"
     THEN IF ok
          THEN /\ browser' = browserLaunches + 1
               /\ browserLaunches' = browserLaunches + 1
               /\ pc' = [pc EXCEPT ![r] = "rendering"]
               /\ UNCHANGED <<renders, artifacts, failedAt, localVars, pages, page,
                              pagesOpened>>
          ELSE /\ Leave(r, "errored", "render")
               /\ renders' = [renders EXCEPT ![r] =
                                Append(@, RenderCall(data[r][1], date_str, FALSE, 0))]
               /\ UNCHANGED <<browser, browserLaunches, artifacts, pages, page,
                              pagesOpened>>
     ELSE IF pc[r] # "printing"
     THEN IF ok
          THEN /\ pagesOpened' = pagesOpened + 1
               /\ page' = [page EXCEPT ![r] = new_page(pagesOpened)]
               /\ pages' = pages \cup {new_page(pagesOpened)}
               /\ pc' = [pc EXCEPT ![r] = "printing"]
               /\ UNCHANGED <<browser, browserLaunches, renders, artifacts,
                              failedAt, localVars>>
          ELSE /\ Leave(r, "errored", "render")
               /\ renders' = [renders EXCEPT ![r] =
                                Append(@, RenderCall(data[r][1], date_str, FALSE, browser))]
               /\ UNCHANGED <<browser, browserLaunches, artifacts, pages, page,
                              pagesOpened>>
     ELSE LET res == generate_report(data[r][1], date_str, ok)
          IN /\ pages' = page_close(pages, page[r], ok)
             /\ page' = [page EXCEPT ![r] = 0]
             /\ UNCHANGED pagesOpened
             /\ renders' = [renders EXCEPT ![r] =
                              Append(@, RenderCall(data[r][1], date_str, ok, browser))]
             /\ artifacts' = IF ok
                             THEN artifacts \cup {OutputPath(date_str, ReportIdOf(data[r][1]))}
                             ELSE artifacts
             /\ IF res.kind = "return"
                THEN /\ pdf_path' = [pdf_path EXCEPT ![r] = res.value]
                     /\ pc' = [pc EXCEPT ![r] = "send"]
                     /\ UNCHANGED <<failedAt, chat_content, weather_current,
                                    projects_summary, photos_db, idx, dirty,
                                    photos_data, data>>
                ELSE Leave(r, "errored", "render")
             /\ UNCHANGED <<browser, browserLaunches>>
  /\ UNCHANGED <<storeVars, envVars, settingsVars, trackerVars, app, started, loop, ingestVars,
                 counter, report_id, sent, analyzerCalls, analysisFailed, weatherFailed>>

\* filename=f"Site_Report_{date_str}_{report_id}.pdf"
SentFilename(date_str, rid) == <<"Site_Report_", date_str, "_", rid, ".pdf">>

\* await context.bot.send_document(chat_id, open(pdf_path), filename=...),
\* then the callback returns
generate_daily_report_send(r, delivered) ==
  /\ pc[r] = "send"
  /\ LoopFree
  /\ IF delivered
     THEN /\ sent' = [sent EXCEPT ![r] =
                        Append(@, Doc(pdf_path[r], SentFilename(Today, report_id[r])))]
          /\ Leave(r, "done", None)
     ELSE /\ Leave(r, "errored", "send")
          /\ UNCHANGED sent
  /\ UNCHANGED <<storeVars, envVars, settingsVars, trackerVars, rendererVars, jobVars, ingestVars, counter,
                 report_id, artifacts, ghostVars>>

\* ================================================================= Next
Next ==
  \/ \E launched \in Outcomes("startup") : post_init(launched)
  \/ \E r \in Runs, user \in Users, replied \in Outcomes("telegram") :
        manual_report(r, user, replied)
  \/ \E text \in Texts, c \in Outcomes("db") : handle_message(text, c)
  \/ \E u \in IngestUIDs, cap \in IngestCaptions, dl \in Outcomes("download"),
        c1 \in Outcomes("db"), c2 \in Outcomes("db") :
        handle_photo(u, cap, dl, c1, c2)
  \/ \E r \in Runs : generate_report_id_select(r)
  \/ \E r \in Runs, c \in Outcomes("db"), ts \in Timestamps :
        generate_report_id_commit(r, c, ts)
  \/ \E r \in Runs : generate_daily_report_logs(r)
  \/ \E r \in Runs, env \in RunEnvs("weather") :
        generate_daily_report_weather(r, env)
  \/ \E r \in Runs, env \in RunEnvs("tracker"), el \in RunLists :
        generate_daily_report_projects(r, env, el)
  \/ \E r \in Runs : generate_daily_report_photo_select(r)
  \/ \E r \in Runs : generate_daily_report_photo_call(r)
  \/ \E r \in Runs, o \in RunAiOutcomes, c \in CommitOutcomes :
        generate_daily_report_photo(r, o, c)
  \/ \E r \in Runs : generate_daily_report_summarize_call(r)
  \/ \E r \in Runs, so \in RunSummaryOutcomes, ao \in RunAiOutcomes :
        generate_daily_report_assemble(r, so, ao)
  \/ \E r \in Runs, ok \in Outcomes("renderer"), date_str \in ClockDates :
        generate_daily_report_render(r, ok, date_str)
  \/ \E r \in Runs, ok \in Outcomes("telegram") :
        generate_daily_report_send(r, ok)

\* =================================================== set_safety_channel
MaxSets == 3
\* update.effective_chat.id: a private chat, a group, a supergroup
ChatIds == {42, -7, -1001}

\* str(chat_id): the sign and the decimal digits
Str(n) == [neg |-> n < 0, digits |-> Digits(IF n < 0 THEN 0 - n ELSE n)]
\* int(setting.value)
RECURSIVE DigitsValue(_)
DigitsValue(d) ==
  IF d = <<>> THEN 0 ELSE 10 * DigitsValue(SubSeq(d, 1, Len(d) - 1)) + d[Len(d)]
ParseInt(text) == IF text.neg THEN 0 - DigitsValue(text.digits) ELSE DigitsValue(text.digits)

SAFETY_CHANNEL == "safety_channel"
\* select(BotSettings).where(key == k) ... scalar_one_or_none()
SelectSetting(table, k) ==
  IF \E i \in DOMAIN table : table[i].key = k
  THEN <<CHOOSE i \in DOMAIN table : table[i].key = k>>
  ELSE <<>>

\* An upsert that leaves a stored value alone.
UpsertKeepingOld(table, k, value) ==
  IF SelectSetting(table, k) # <<>> THEN table
  ELSE Append(table, [key |-> k, value |-> value])

\* `if setting: setting.value = v  else: session.add(BotSettings(k, v))`
Upsert(table, k, value) ==
  LET setting == SelectSetting(table, k)
  IN IF setting # <<>>
     THEN [table EXCEPT ![setting[1]].value = value]
     ELSE Append(table, [key |-> k, value |-> value])

SETTING_SAVED == "channel set"
SETTING_ERROR == "error saving settings"

\* /set_safety_channel from `user` in chat chat_id: nothing for anyone but an
\* admin; else the upsert in one session, then the confirmation, or the
\* error reply when the commit raised.
set_safety_channel(user, chat_id, committed) ==
  /\ app = "running"
  /\ setCalls < MaxSets
  /\ setCalls' = setCalls + 1
  /\ IF user \notin ADMIN_IDS
     THEN /\ settingsReply' = ""
          /\ UNCHANGED <<bot_settings, lastSet>>
     ELSE IF committed
     THEN /\ bot_settings' = Upsert(bot_settings, SAFETY_CHANNEL, Str(chat_id))
          /\ lastSet' = <<chat_id>>
          /\ settingsReply' = SETTING_SAVED
     ELSE /\ settingsReply' = SETTING_ERROR
          /\ UNCHANGED <<bot_settings, lastSet>>
  /\ UNCHANGED <<storeVars, envVars, tip, trackerVars, rendererVars, jobVars, ingestVars, runVars,
                 ghostVars>>

\* The chat the two daily jobs read from the settings: chat_id, or none.
ReadSafetyChannel(table) ==
  LET setting == SelectSetting(table, SAFETY_CHANNEL)
  IN IF setting # <<>> THEN <<ParseInt(table[setting[1]].value)>> ELSE <<>>

\* send_daily_safety_tip: the tip goes to the chat read from the settings;
\* without a setting, or when sending raises, there is only a log line.
send_daily_safety_tip(delivered) ==
  /\ app = "running"
  /\ LET chat_id == ReadSafetyChannel(bot_settings)
     IN tip' = IF chat_id # <<>> /\ delivered
               THEN <<[to |-> chat_id[1], latest |-> lastSet]>>
               ELSE tip
  /\ UNCHANGED <<storeVars, envVars, bot_settings, setCalls, lastSet, settingsReply, trackerVars,
                 rendererVars, jobVars, ingestVars, runVars, ghostVars>>

NextSettings ==
  \/ \E launched \in BOOLEAN : post_init(launched)
  \/ \E r \in Runs, user \in Users, replied \in BOOLEAN :
        manual_report(r, user, replied)
  \/ \E user \in Users, chat_id \in ChatIds, committed \in BOOLEAN :
        set_safety_channel(user, chat_id, committed)
  \/ \E delivered \in BOOLEAN : send_daily_safety_tip(delivered)

\* ====================================================== _get_project_id
MaxFetches == 3
\* The projects of the tracker: the configured one has id 7.
Project(identifier, id) == [identifier |-> identifier, id |-> id]
\* What GET /api/v3/projects does: a page of projects with or without the
\* configured one, an error status, or an exception of the request.
ServerProjects == <<Project("annex", 9), Project(PROJECT_IDENTIFIER, 7)>>
ProjectListings ==
  {[kind |-> "response", status |-> 200, elements |-> ServerProjects],
   [kind |-> "response", status |-> 200, elements |-> <<Project("annex", 9)>>],
   [kind |-> "response", status |-> 500, elements |-> <<>>],
   [kind |-> "ClientConnectionError", status |-> 0, elements |-> <<>>]}

\* A resolver that lists the projects on every call and keeps nothing.
_get_project_id_uncached(identifier, cached, listing) ==
  IF identifier = None
  THEN [value |-> 0, project_id |-> cached, listed |-> FALSE]
  ELSE LET e == listing.elements
           hits == {i \in DOMAIN e : e[i].identifier = identifier}
       IN IF listing.kind = "response" /\ listing.status = 200 /\ hits # {}
          THEN [value |-> e[CHOOSE i \in hits : \A j \in hits : i <= j].id,
                project_id |-> cached, listed |-> TRUE]
          ELSE [value |-> 0, project_id |-> cached, listed |-> TRUE]

\* _get_project_id: None without an identifier; the cached id when there is
\* one; else the projects are listed and the id of the first project whose
\* identifier is equal is cached and returned; None (0) on any other status,
\* on an exception and when no project matches. value is what the caller
\* gets, project_id the cache afterwards, listed whether a request was made.
_get_project_id(identifier, cached, listing) ==
  IF identifier = None
  THEN [value |-> 0, project_id |-> cached, listed |-> FALSE]
  ELSE IF cached # 0
  THEN [value |-> cached, project_id |-> cached, listed |-> FALSE]
  ELSE LET e == listing.elements
           hits == {i \in DOMAIN e : e[i].identifier = identifier}
       IN IF listing.kind = "response" /\ listing.status = 200 /\ hits # {}
          THEN LET id == e[CHOOSE i \in hits : \A j \in hits : i <= j].id
               IN [value |-> id, project_id |-> id, listed |-> TRUE]
          ELSE [value |-> 0, project_id |-> cached, listed |-> TRUE]

\* The work packages of the tracker, each with the id of its project
WorkItem(i, project) == [id |-> i, project |-> project]
ServerItems == <<WorkItem(1, 7), WorkItem(2, 9), WorkItem(3, 7)>>
\* GET /api/v3/work_packages, with ?filters=[{"project": {"=": [id]}}] when
\* project_id is truthy and with no filter otherwise
Served(filter) ==
  IF filter # 0
  THEN SelectSeq(ServerItems, LAMBDA it : it.project = filter)
  ELSE ServerItems

\* The body of get_work_packages, once (tenacity runs it again on a
\* ClientError): the id is resolved, the URL built, the request made.
get_work_packages_body(listing, o) ==
  /\ Len(fetches) < MaxFetches
  /\ LET res == _get_project_id(project_identifier, project_id, listing)
     IN /\ project_id' = res.project_id
        /\ listings' = IF res.listed THEN listings + 1 ELSE listings
        /\ fetches' = Append(fetches,
                         [cached |-> project_id, listing |-> listing,
                          listed |-> res.listed, filter |-> res.value,
                          project_id |-> res.project_id,
                          outcome |-> WorkPackagesBody(o, Served(res.value))])
  /\ UNCHANGED <<storeVars, envVars, settingsVars, project_identifier, rendererVars, jobVars,
                 ingestVars, runVars, ghostVars>>

NextTracker ==
  \E listing \in ProjectListings, o \in {"ok", "ClientConnectionError"} :
    get_work_packages_body(listing, o)

\* ================================================ the adapters alone
\* What the remote end may do on the attempts of one adapter call.
AdapterEnvs == [1..StopAfterAttempt -> RemoteOutcomes]

\* What adapterCall holds after a call of fn. A behaviour makes one call.
Called(fn, env, elements, res) ==
  <<[fn |-> fn, env |-> env, elements |-> elements,
     attempts |-> res.attempts, outcome |-> res.outcome]>>

\* await openproject_client.get_work_packages()
call_get_work_packages(env, elements) ==
  /\ adapterCall = <<>>
  /\ adapterCall' = Called("get_work_packages", env, elements,
                           get_work_packages(env, elements))
  /\ UNCHANGED <<storeVars, scenario, settingsVars, trackerVars, rendererVars, jobVars, ingestVars, runVars, ghostVars>>

\* await openproject_client.get_summary(); the attempts are those of the
\* fetch it makes
call_get_summary(env, elements) ==
  /\ adapterCall = <<>>
  /\ adapterCall' = Called("get_summary", env, elements,
                           [attempts |-> get_work_packages(env, elements).attempts,
                            outcome |-> get_summary(env, elements)])
  /\ UNCHANGED <<storeVars, scenario, settingsVars, trackerVars, rendererVars, jobVars, ingestVars, runVars, ghostVars>>

\* await weather_client.get_current_weather()
call_get_current_weather(env) ==
  /\ adapterCall = <<>>
  /\ adapterCall' = Called("get_current_weather", env, <<>>,
                           get_current_weather(env))
  /\ UNCHANGED <<storeVars, scenario, settingsVars, trackerVars, rendererVars, jobVars, ingestVars, runVars, ghostVars>>

\* await weather_client.get_forecast()
call_get_forecast(env) ==
  /\ adapterCall = <<>>
  /\ adapterCall' = Called("get_forecast", env, <<>>, get_forecast(env))
  /\ UNCHANGED <<storeVars, scenario, settingsVars, trackerVars, rendererVars, jobVars, ingestVars, runVars, ghostVars>>

\* What the weather service does to the one request a weather function makes.
WeatherEnvs ==
  {[k \in 1..StopAfterAttempt |-> o] : o \in {"ok", "ClientConnectionError"}}

\* alert_msg = await weather_client.check_severe_conditions()
call_check_severe_conditions(hour, envC, wind, envF, pops) ==
  /\ adapterCall = <<>>
  /\ adapterCall' =
       LET res == check_severe_conditions(hour, envC, wind, envF, pops)
       IN <<[fn |-> "check_severe_conditions", hour |-> hour, env |-> envC,
             wind |-> wind, envF |-> envF, pops |-> pops,
             calls |-> res.calls, alerts |-> res.alerts, outcome |-> res.outcome]>>
  /\ UNCHANGED <<storeVars, scenario, settingsVars, trackerVars, rendererVars, jobVars, ingestVars, runVars, ghostVars>>

\* The sleep between attempt k and attempt k + 1 of a retried call
call_wait_exponential(release, k) ==
  /\ adapterCall = <<>>
  /\ adapterCall' = <<[fn |-> "wait_exponential", release |-> release,
                       attempt |-> k, wait |-> wait_exponential(release, k)]>>
  /\ UNCHANGED <<storeVars, scenario, settingsVars, trackerVars, rendererVars, jobVars, ingestVars,
                 runVars, ghostVars>>

NextAdapters ==
  \/ \E release \in TenacityReleases, k \in 1..(StopAfterAttempt - 1) :
        call_wait_exponential(release, k)
  \/ \E env \in AdapterEnvs, el \in FetchedLists : call_get_work_packages(env, el)
  \/ \E env \in AdapterEnvs, el \in FetchedLists : call_get_summary(env, el)
  \/ \E env \in AdapterEnvs : call_get_current_weather(env)
  \/ \E env \in AdapterEnvs : call_get_forecast(env)
  \/ \E hour \in Hours, envC \in WeatherEnvs, wind \in WindSpeeds,
        envF \in WeatherEnvs, pops \in ForecastLists :
        call_check_severe_conditions(hour, envC, wind, envF, pops)

Spec == Init /\ [][Next]_vars

\* The same program in one environment each.
\* The deployment's URL names a project.
Configured == project_identifier = PROJECT_IDENTIFIER
InitIngestion == Init /\ scenario = "ingest" /\ Configured
InitUpstream == Init /\ scenario = "upstream" /\ Configured
InitAnalysis == Init /\ scenario = "analysis" /\ Configured
InitConcurrent == Init /\ scenario = "concurrent" /\ Configured
SpecIngest == InitIngestion /\ [][Next]_vars
SpecUpstream == InitUpstream /\ [][Next]_vars
SpecAnalysis == InitAnalysis /\ [][Next]_vars
SpecConcurrent == InitConcurrent /\ [][Next]_vars
\* The adapters called on their own, against every remote behaviour.
InitAdapters == InitUpstream /\ report_counters = <<>>
SpecAdapters == InitAdapters /\ [][NextAdapters]_vars

\* The tracker adapter on its own, with and without a project in its URL.
InitTrackerAlone == Init /\ scenario = "upstream" /\ report_counters = <<>>
SpecTracker == InitTrackerAlone /\ [][NextTracker]_vars

\* The settings handler and the job that reads the setting, on their own.
SpecSettings == InitAdapters /\ [][NextSettings]_vars

\* The event loop runs every handler and every queued job that can run.
SpecUpstreamLive == SpecUpstream /\ WF_vars(Next)

\* The event loop runs every handler and every queued job that can run, and
\* every await on the store, on aiohttp (whose sessions are created with the
\* library's default total timeout) and on the browser ends. The SDK calls of
\* ai_engine are made with no timeout argument: nothing in the program makes
\* a call that is waiting for the collaborator return.
SpecRemoteLive == SpecUpstream /\ WF_vars(Next /\ LoopFree)

\* ============================================================ properties
Ended(r) == pc[r] \in {"done", "errored"}
Numbered(r) == report_id[r] # <<>>
IsErrorId(rid) == rid[2] = "ERR"
StoredAnalysis(u) ==
  {photo_metadata[i].analysis :
     i \in {j \in DOMAIN photo_metadata : photo_metadata[j].file_unique_id = u}}

\* C1: runs whose numbering steps overlap in one month are assigned pairwise
\* distinct identities, and once all NumRuns runs are numbered their counters
\* are exactly c+1 .. c+NumRuns, c being the count stored before.
C1_DistinctConsecutiveCounters ==
  /\ \A r, q \in Runs :
       (r # q /\ Numbered(r) /\ Numbered(q)) => report_id[r] # report_id[q]
  /\ (\A r \in Runs : Numbered(r)) =>
       \E c \in 0..MaxInitCount :
         {report_id[r] : r \in Runs} = {FormatReportId(c + i) : i \in 1..NumRuns}

\* C2: the store never holds two PhotoRecords with the same unique id.
C2_OneRecordPerUniqueId ==
  \A i, j \in DOMAIN photo_metadata :
    photo_metadata[i].file_unique_id = photo_metadata[j].file_unique_id => i = j

\* C2 witness: the same photo was handled twice, both times past the download
\* (both captions are logged), and one record is stored for it.
C2_SameIdIngestedTwice ==
  /\ handled["u1"] = 2
  /\ Len(chat_logs) = 2
  /\ Cardinality({i \in DOMAIN photo_metadata :
                    photo_metadata[i].file_unique_id = "u1"}) = 1

\* C3: over runs that do not overlap, the analyzer is called at most once for
\* each PhotoRecord, and a record whose analysis is stored enters a run's
\* view-model with exactly the stored text.
C3_AnalyzerOncePerRecord ==
  /\ \A u \in UIDs : analyzerCalls[u] <= 1
  /\ \A r \in Runs : \A i \in DOMAIN photos_data[r] :
       LET u == photos_data[r][i].file_unique_id
       IN \A a \in StoredAnalysis(u) : a # "" => photos_data[r][i].analysis = a

\* C4: when a run has ended, every photo whose lazy analysis failed in it has
\* a non-empty analysis stored, and the analyzer was called for it once only.
C4_FailureMarkerPersisted ==
  \A r \in Runs : Ended(r) =>
    \A u \in analysisFailed[r] :
      /\ StoredAnalysis(u) # {}
      /\ "" \notin StoredAnalysis(u)
      /\ analyzerCalls[u] = 1

\* C5: with runs in flight together, the analyzer is still called at most once
\* for an unanalyzed PhotoRecord.
C5_AnalyzerOnceUnderOverlap ==
  Overlap => \A u \in IngestUIDs : analyzerCalls[u] < 2

\* C6: when the weather collaborator fails on every call, get_current_weather
\* and get_forecast return None without raising, the run is not ended by the
\* weather step, and its document carries a null current weather.
AlwaysFailing == [1..StopAfterAttempt -> RemoteOutcomes \ {"ok"}]
C6_WeatherDegradesToNull ==
  /\ \A env \in AlwaysFailing :
       /\ get_current_weather(env).outcome = Return(None)
       /\ get_forecast(env).outcome = Return(None)
  /\ \A r \in Runs : weatherFailed[r] =>
       /\ failedAt[r] # "weather"
       /\ pc[r] \in {"projects", "photo_select", "photos"} =>
            weather_current[r] = None
       /\ pc[r] \in {"render", "send"} =>
            /\ data[r] # <<>>
            /\ data[r][1].weather.current = None

\* C6 witness: a run whose weather calls all failed has its document, with a
\* null weather, rendered.
C6_RenderedWithoutWeather ==
  \E r \in Runs :
    /\ weatherFailed[r]
    /\ pc[r] = "send"
    /\ data[r][1].weather.current = None
    /\ pdf_path[r] \in artifacts

\* C7: a run that ended without an artifact was ended by the renderer or had
\* a failed numbering, whatever the weather adapter, the project adapter, the
\* summarizer and the photo analyzer did.
C7_ArtifactUnlessRenderOrNumberingFails ==
  \A r \in Runs :
    (Ended(r) /\ OutputPath(Today, report_id[r]) \notin artifacts) =>
      (failedAt[r] = "render" \/ IsErrorId(report_id[r]))

\* C8: get_work_packages makes at most 3 attempts, makes another attempt only
\* after an attempt that raised an aiohttp.ClientError, and lets any other
\* exception out after exactly one attempt.
C8_RetryOnlyOnClientError ==
  adapterCall # <<>> =>
    LET c == adapterCall[1]
    IN c.fn = "get_work_packages" =>
         /\ c.attempts \in 1..3
         /\ \A k \in 1..(c.attempts - 1) : IsClientError(c.env[k])
         /\ (c.env[1] # "ok" /\ ~IsClientError(c.env[1])) =>
              /\ c.attempts = 1
              /\ c.outcome.kind = "raise"
              /\ c.outcome.exc = c.env[1]

\* C8 witness: three attempts were made, each ending in a ClientError.
C8_ThreeAttemptsMade ==
  /\ adapterCall # <<>>
  /\ adapterCall[1].fn = "get_work_packages"
  /\ adapterCall[1].attempts = 3
  /\ \A k \in 1..3 : IsClientError(adapterCall[1].env[k])
  /\ adapterCall[1].outcome.kind = "raise"

\* C9: a weather call whose attempt hits a transient network error is
\* attempted again, and None is returned only after the third attempt failed.
C9_WeatherCallsRetried ==
  adapterCall # <<>> =>
    LET c == adapterCall[1]
    IN c.fn \in {"get_current_weather", "get_forecast"} =>
         /\ IsClientError(c.env[1]) => c.attempts >= 2
         /\ (c.outcome.kind = "return" /\ c.outcome.value = None) =>
              c.attempts = StopAfterAttempt

\* C10: whenever the fetch of get_work_packages fails, get_summary returns,
\* and returns exactly {active: [], incoming: []}.
C10_SummaryEmptyOnFetchFailure ==
  adapterCall # <<>> =>
    LET c == adapterCall[1]
    IN (c.fn = "get_summary"
        /\ get_work_packages(c.env, c.elements).outcome.kind = "raise") =>
         /\ c.outcome.kind = "return"
         /\ c.outcome.value = EmptySummary

\* C10 witness: the tracker held work items, every attempt of the fetch
\* failed, and get_summary returned the empty summary.
C10_FetchFailedSummaryEmpty ==
  /\ adapterCall # <<>>
  /\ adapterCall[1].fn = "get_summary"
  /\ adapterCall[1].elements # <<>>
  /\ \A k \in 1..3 : adapterCall[1].env[k] = "ClientConnectionError"
  /\ adapterCall[1].attempts = 3
  /\ adapterCall[1].outcome = Return(EmptySummary)

\* ---- work-item classification
InProgressText == <<"i", "n", " ", "p", "r", "o", "g", "r", "e", "s", "s">>
\* text = a \o InProgressText \o b for some a, b
HasInProgress(text) ==
  \E a \in 0..Len(text) :
    /\ a + Len(InProgressText) <= Len(text)
    /\ \A i \in DOMAIN InProgressText : text[a + i] = InProgressText[i]
WellFormed(pkg) ==
  pkg.shape = "dict"
  /\ (pkg.startDate = "" \/ ParseDate(pkg.startDate).kind = "return")
InBucket(bucket, pkg) == \E j \in DOMAIN bucket : bucket[j].id = pkg.id
\* The buckets of a returned summary hold pkg as its status and start date say.
ClassifiedByStatus(summary, pkg) ==
  LET status_lower == Lower(Strip(pkg.status))
      inActive == InBucket(summary.active, pkg)
      inIncoming == InBucket(summary.incoming, pkg)
  IN /\ inActive <=> HasInProgress(status_lower)
     /\ inIncoming <=> (/\ ~HasInProgress(status_lower)
                        /\ status_lower \notin ClosedSet
                        /\ pkg.startDate # "")
     /\ ~(inActive /\ inIncoming)
SummaryCallOnFetched ==
  /\ adapterCall # <<>>
  /\ adapterCall[1].fn = "get_summary"
  /\ get_work_packages(adapterCall[1].env, adapterCall[1].elements).outcome.kind
       = "return"

\* C11: in a summary get_summary returns, a well-formed work item is in
\* 'active' iff its lower-cased status contains "in progress", in 'incoming'
\* iff it is not active, its lower-cased status is none of closed, rejected,
\* completed, on hold, and it has a start date; it is never in both.
C11_ClassifiedByStatusAndStartDate ==
  (SummaryCallOnFetched /\ adapterCall[1].outcome.kind = "return") =>
    \A i \in DOMAIN adapterCall[1].elements :
      WellFormed(adapterCall[1].elements[i]) =>
        ClassifiedByStatus(adapterCall[1].outcome.value, adapterCall[1].elements[i])

\* C11 witness: an item with status "In Progress (rev)" and no start date was
\* fetched and is in 'active'.
C11_SubstringStatusIsActive ==
  /\ SummaryCallOnFetched
  /\ adapterCall[1].outcome.kind = "return"
  /\ \E i \in DOMAIN adapterCall[1].elements :
       /\ adapterCall[1].elements[i].status = StInProgressRev
       /\ InBucket(adapterCall[1].outcome.value.active, adapterCall[1].elements[i])
       /\ ~InBucket(adapterCall[1].outcome.value.incoming, adapterCall[1].elements[i])

\* C12: whenever the fetch succeeded, whatever malformed elements the list
\* holds, get_summary returns and every well-formed item of the list is
\* classified.
C12_MalformedItemSkippedAlone ==
  SummaryCallOnFetched =>
    /\ adapterCall[1].outcome.kind = "return"
    /\ \A i \in DOMAIN adapterCall[1].elements :
         WellFormed(adapterCall[1].elements[i]) =>
           ClassifiedByStatus(adapterCall[1].outcome.value,
                              adapterCall[1].elements[i])

\* ---- weather alerts
AlertCall ==
  /\ adapterCall # <<>>
  /\ adapterCall[1].fn = "check_severe_conditions"
AlertsOf(kind) ==
  {i \in DOMAIN adapterCall[1].alerts : adapterCall[1].alerts[i][1] = kind}
\* the current weather and the forecast were delivered
CurrentKnown == adapterCall[1].env[1] = "ok"
ForecastKnown == adapterCall[1].envF[1] = "ok"
\* positions among the first two forecast entries with pop > 50%
Qualifying ==
  {i \in DOMAIN adapterCall[1].pops : i <= 2 /\ adapterCall[1].pops[i] > 50}

\* C13: a wind alert is emitted iff the wind speed in km/h is above 30 and the
\* local hour h has 6 <= h < 22; in the quiet hours there is none whatever
\* the wind, the result is then None unless the forecast qualifies for a rain
\* alert, and a qualifying forecast gives its rain alert in the quiet hours too.
C13_WindAlertOutsideQuietHours ==
  AlertCall =>
    LET c == adapterCall[1]
        windy == c.wind * 36 > 3000
        daytime == 6 <= c.hour /\ c.hour < 22
    IN /\ c.outcome.kind = "return"
       /\ CurrentKnown => ((AlertsOf("wind") # {}) <=> (windy /\ daytime))
       /\ ~daytime => AlertsOf("wind") = {}
       /\ (~daytime /\ (Qualifying = {} \/ ~ForecastKnown)) => c.outcome.value = NoRow
       /\ (ForecastKnown /\ Qualifying # {}) => AlertsOf("rain") # {}

\* C13 witness: at hour 23 with a wind of 11.1 m/s (40 km/h) and no rain due,
\* the call returned None.
C13_StrongWindAtNightIsSilent ==
  /\ AlertCall
  /\ adapterCall[1].hour = 23
  /\ adapterCall[1].wind = 111
  /\ CurrentKnown /\ ForecastKnown
  /\ adapterCall[1].pops = <<20, 20>>
  /\ adapterCall[1].outcome = Return(NoRow)

\* C14: a call gives at most one rain alert; it gives one iff one of the first
\* two forecast entries has a probability above 50%, and the alert carries
\* the probability of the first such entry.
C14_OneRainAlertFromFirstTwo ==
  AlertCall =>
    /\ Cardinality(AlertsOf("rain")) <= 1
    /\ (AlertsOf("rain") # {}) <=> (ForecastKnown /\ Qualifying # {})
    /\ \A i \in AlertsOf("rain") :
         LET first == CHOOSE q \in Qualifying : \A o \in Qualifying : q <= o
         IN adapterCall[1].alerts[i] = <<"rain", adapterCall[1].pops[first]>>

\* C14 witness: the forecast [20%, 90%, 90%] gave exactly one rain alert, for 90%.
C14_SecondEntryAlerts ==
  /\ AlertCall
  /\ adapterCall[1].pops = <<20, 90, 90>>
  /\ Cardinality(AlertsOf("rain")) = 1
  /\ \A i \in AlertsOf("rain") : adapterCall[1].alerts[i] = <<"rain", 90>>

\* ------------------------------------------------------------------ C15
\* A text of the bot in the chat of trigger r other than the two replies of
\* manual_report itself.
FailureNotified(r) ==
  \E i \in 1..Len(sent[r]) :
    /\ sent[r][i].kind = "text"
    /\ sent[r][i].text \notin {ACK_TEXT, DENIED_TEXT}

\* C15: a run started through manual_report that fails is followed, sooner
\* or later, by a failure notification in the requester's chat.
C15_FailedManualRunNotified ==
  \A r \in Runs : (pc[r] = "errored") ~> FailureNotified(r)

\* ------------------------------------------------------------------ C16
Documents(r) == {i \in 1..Len(sent[r]) : sent[r][i].kind = "document"}
RenderFailed(r) == \E i \in 1..Len(renders[r]) : ~renders[r][i].ok

\* C16: once the renderer has failed in a run, the run is over: it ended in
\* the callback's own handler at the render step (pc "errored", nothing
\* raised further), no document was or is ever delivered to its chat, and the
\* failed call stays the run's last call of the renderer.
C16_RenderFailureEndsRun ==
  \A r \in Runs :
    RenderFailed(r) =>
      /\ pc[r] = "errored"
      /\ failedAt[r] = "render"
      /\ Documents(r) = {}
      /\ pdf_path[r] = <<>>
      /\ ~renders[r][Len(renders[r])].ok

\* C16 witness: a run whose renderer failed has ended, its acknowledgement
\* the only message in the chat.
C16_RenderFailedRunEnded ==
  \E r \in Runs :
    /\ RenderFailed(r)
    /\ pc[r] = "errored"
    /\ Len(sent[r]) = 1

\* ------------------------------------------------------------------ C17
Queued(r) == pc[r] \notin {"idle", "dropped", "denied"}
FileName(path) == path[4]

\* C17: a trigger that queued the job enters the callback once, and never
\* again; the run calls the renderer at most once; a run that succeeded sent
\* exactly one document to the trigger's chat, the file the renderer wrote,
\* and the name of that file carries the run's report identity; a run that
\* did not succeed sent no document.
C17_OneRunOneArtifactPerTrigger ==
  \A r \in Runs :
    /\ started[r] <= 1
    /\ (Queued(r) /\ pc[r] # "scheduled") <=> (started[r] = 1)
    /\ Len(renders[r]) <= 1
    /\ pc[r] # "done" => Documents(r) = {}
    /\ pc[r] = "done" =>
         /\ Cardinality(Documents(r)) = 1
         /\ Len(renders[r]) = 1
         /\ \A i \in Documents(r) :
              /\ sent[r][i].path = renders[r][1].path
              /\ sent[r][i].path \in artifacts
              /\ FileName(sent[r][i].path)[2] = report_id[r]

\* C17 witness: two triggers, both run to the end, one document each.
C17_TwoTriggersTwoDocuments ==
  \A r \in Runs :
    /\ pc[r] = "done"
    /\ started[r] = 1
    /\ Cardinality(Documents(r)) = 1

\* ------------------------------------------------------------------ C18
\* The renderer calls that wrote a file, over all runs.
Rendered ==
  {renders[r][1] : r \in {q \in Runs : Len(renders[q]) > 0 /\ renders[q][1].ok}}
Keys(calls) == {<<c.date, c.rid>> : c \in calls}

\* C18: of two renderer calls, those for the same day and the same report
\* identity wrote to the same path, those for the same day and different
\* identities to different paths, and so did those for different days; the
\* files on disk are as many as the (date, identity) pairs rendered, a later
\* rendering of a pair having replaced the earlier file.
C18_PathIsFunctionOfDateAndIdentity ==
  /\ \A a \in Rendered, b \in Rendered :
       (a.date = b.date /\ a.rid = b.rid) <=> (a.path = b.path)
  /\ artifacts = {c.path : c \in Rendered}
  /\ Cardinality(artifacts) = Cardinality(Keys(Rendered))

\* C18 witness: two runs rendered on the same day under different
\* identities, and two files are there.
C18_SameDayTwoIdentitiesTwoFiles ==
  \E a \in Rendered, b \in Rendered :
    /\ a.date = b.date
    /\ a.rid # b.rid
    /\ a.path # b.path
    /\ Cardinality(artifacts) = 2

\* ------------------------------------------------------------------ C19
\* The browser handles the pages of the renderer calls were opened on.
HandlesUsed ==
  UNION {{renders[r][i].browser : i \in 1..Len(renders[r])} : r \in Runs} \ {0}

\* C19: whatever the order of start-up and of the steps of overlapping
\* renderer calls, a browser is launched at most once, and every renderer
\* call opens its page on that one browser.
C19_BrowserLaunchedOnce ==
  /\ browserLaunches <= 1
  /\ Cardinality(HandlesUsed) <= 1

\* ------------------------------------------------------------------ C20
DocumentFields ==
  {"date", "report_id", "weather", "projects", "site_manpower_machinery",
   "site_activities", "analysis", "photos"}
IsList(v) == DOMAIN v = 1..Len(v)

\* C20: the document a run hands to the renderer has every field, whatever
\* failed before: the date, the run's report identity, a weather entry with
\* its current snapshot (null when the weather calls failed) and its empty
\* forecast, projects with both of its lists, the two site summaries, the
\* analysis text and the list of photos.
C20_DocumentHasEveryField ==
  \A r \in Runs :
    data[r] # <<>> =>
      LET d == data[r][1]
      IN /\ DOMAIN d = DocumentFields
         /\ d.date = Today
         /\ d.report_id = report_id[r] /\ d.report_id # <<>>
         /\ DOMAIN d.weather = {"current", "forecast"}
         /\ d.weather.forecast = <<>>
         /\ weatherFailed[r] => d.weather.current = None
         /\ DOMAIN d.projects = {"active", "incoming"}
         /\ IsList(d.projects.active) /\ IsList(d.projects.incoming)
         /\ d.site_manpower_machinery \in STRING
         /\ d.site_activities \in STRING
         /\ d.analysis \in STRING
         /\ IsList(d.photos)

\* C20 witness: a document is at the renderer although the weather calls
\* failed, the tracker gave nothing, the summary lacked its keys, the
\* analysis call raised and there is no photo.
C20_DocumentOfDefaultsRendered ==
  \E r \in Runs :
    /\ pc[r] = "render"
    /\ data[r] # <<>>
    /\ weatherFailed[r]
    /\ data[r][1].projects = EmptySummary
    /\ data[r][1].site_manpower_machinery = ""
    /\ data[r][1].analysis = analyze_site_data("exception")
    /\ data[r][1].photos = <<>>

\* ------------------------------------------------------------------ C21
\* The fragments a document may carry under `key`: what the summarizer
\* answered, or the fixed placeholder.
Fragments(key) ==
  {DictGet(summarize_logs(<<"log">>, "object"), key, ""),
   DictGet(default_response, key, "")}

\* C21: whatever the summarizer does, no run ends at the summary: the run
\* goes on to the document, whose two fragments are the summarizer's values
\* or the placeholders.
C21_SummarizerNeverAbortsRun ==
  \A r \in Runs :
    /\ failedAt[r] # "assemble"
    /\ data[r] # <<>> =>
         /\ data[r][1].site_manpower_machinery \in Fragments("site_manpower_machinery")
         /\ data[r][1].site_activities \in Fragments("site_activities")

\* ------------------------------------------------------------------ C22
\* C22: no two runs hand the same report identity to the renderer (of two
\* runs that did, the one numbered later would have been given an identity
\* already assigned to an earlier run).
C22_RenderedIdentitiesNeverReused ==
  \A r \in Runs, q \in Runs :
    (r # q /\ renders[r] # <<>> /\ renders[q] # <<>>) =>
      renders[r][1].rid # renders[q][1].rid

\* ------------------------------------------------------------------ C23
\* The count stored for the month, 0 when there is no row.
StoredCount(table) ==
  IF SelectCounter(table, ThisMonth) = NoRow THEN 0
  ELSE SelectCounter(table, ThisMonth)[1].count

\* Run r leaves generate_report_id with a numbered identity in this step.
NumberingSucceeds(r) ==
  /\ pc[r] = "numbering"
  /\ pc'[r] = "read_logs"
  /\ ~IsErrorId(report_id'[r])

\* C23: the store never holds two counter rows for one month key; no step
\* lowers the stored count; a numbering step that succeeds raises it by
\* exactly 1; and no other step of a run, failing or not, changes it.
C23_CounterRowUniqueAndMonotonic ==
  /\ [](\A i, j \in DOMAIN report_counters :
          report_counters[i].month_key = report_counters[j].month_key => i = j)
  /\ [][/\ StoredCount(report_counters') >= StoredCount(report_counters)
        /\ \A r \in Runs :
             NumberingSucceeds(r) =>
               StoredCount(report_counters') = StoredCount(report_counters) + 1
        /\ (\A r \in Runs : ~NumberingSucceeds(r)) =>
               report_counters' = report_counters]_vars

\* ------------------------------------------------------------------ C24
\* The rows a query of the store returns for a photo / for the text messages.
PhotoRecords(u) ==
  {i \in DOMAIN photo_metadata : photo_metadata[i].file_unique_id = u}
TextRows ==
  {i \in DOMAIN chat_logs : \E text \in Texts : chat_logs[i] = TextRow(text)}

\* C24: a photo whose handler replied that it is saved has its record in the
\* store, and every save_log that returned normally left its message there.
C24_AcknowledgedMeansCommitted ==
  /\ \A u \in UIDs : photoReply[u] = PHOTO_SAVED => PhotoRecords(u) # {}
  /\ Cardinality(TextRows) = logReturns

\* ------------------------------------------------------------------ C25
\* handle_photo is run in this step for unique id u, which has a record.
ReingestStep(u) ==
  /\ handled'[u] = handled[u] + 1
  /\ PhotoRecords(u) # {}

\* C25: handling a photo whose unique id has a record changes nothing in the
\* store, neither the record nor the stored messages, and the handler ends
\* with its usual reply.
C25_ReingestIsNoOpOnStore ==
  [][\A u \in UIDs :
       ReingestStep(u) =>
         /\ photo_metadata' = photo_metadata
         /\ chat_logs' = chat_logs
         /\ photoReply'[u] # ""]_vars

\* ------------------------------------------------------------------ C26
\* C26: bot_settings never holds two rows with one key; once a set of
\* "safety_channel" has been committed, a read of the key gives the chat of
\* the latest such set, and every tip went to the chat that was the latest
\* set when it was sent.
C26_LastSetIsRead ==
  /\ \A i, j \in DOMAIN bot_settings :
       bot_settings[i].key = bot_settings[j].key => i = j
  /\ ReadSafetyChannel(bot_settings) = lastSet
  /\ \A i \in DOMAIN tip : tip[i].latest = <<tip[i].to>>

\* C26 witness: after three committed sets, for three different chats, the
\* read gives the third, the supergroup with the negative id.
C26_ThirdSetIsRead ==
  /\ setCalls = 3
  /\ settingsReply = SETTING_SAVED
  /\ lastSet = <<-1001>>
  /\ ReadSafetyChannel(bot_settings) = <<-1001>>
  /\ tip # <<>> /\ tip[1].to = -1001

\* ------------------------------------------------------------------ C27
\* C27: when each of the three attempts of get_work_packages ended in an
\* aiohttp.ClientError, the caller gets the exception of the third attempt.
C27_LastAttemptErrorDelivered ==
  adapterCall # <<>> =>
    LET c == adapterCall[1]
    IN (c.fn = "get_work_packages"
        /\ \A k \in 1..StopAfterAttempt : IsClientError(c.env[k])) =>
         /\ c.outcome.kind = "raise"
         /\ c.outcome.exc = c.env[StopAfterAttempt]

\* ------------------------------------------------------------------ C28
\* C28: the wait before re-attempt k is min(10, 2 * 2^(k-1)): 2 before the
\* second attempt, 4 before the third, never more than 10.
C28_WaitDoublesFromTwo ==
  adapterCall # <<>> =>
    LET c == adapterCall[1]
    IN c.fn = "wait_exponential" =>
         /\ c.wait = Min(10, 2 * 2 ^ (c.attempt - 1))
         /\ c.wait <= 10

\* ------------------------------------------------------------------ C29
\* The calendar order of two parsed dates <<year, month, day>>.
DateBefore(a, b) ==
  \/ a[1] < b[1]
  \/ a[1] = b[1] /\ a[2] < b[2]
  \/ a[1] = b[1] /\ a[2] = b[2] /\ a[3] < b[3]
StartOf(item) == ParseDate(item.startDate).value
FetchedAt(elements, item) == CHOOSE i \in DOMAIN elements : elements[i].id = item.id

\* C29: for fetched items whose start dates all parse, the incoming list of
\* get_summary is in ascending order of start date, as calendar dates, and
\* items with the same start date keep the order they were fetched in.
C29_IncomingSortedByCalendarDate ==
  adapterCall # <<>> =>
    LET c == adapterCall[1]
    IN (c.fn = "get_summary"
        /\ c.outcome.kind = "return"
        /\ \A k \in DOMAIN c.elements : WellFormed(c.elements[k])) =>
         LET incoming == c.outcome.value.incoming
         IN \A i \in DOMAIN incoming, j \in DOMAIN incoming :
              i < j =>
                /\ ~DateBefore(StartOf(incoming[j]), StartOf(incoming[i]))
                /\ StartOf(incoming[i]) = StartOf(incoming[j]) =>
                     FetchedAt(c.elements, incoming[i]) < FetchedAt(c.elements, incoming[j])

\* ------------------------------------------------------------------ C30
\* C30: no run ends in the loop over the photos; a run that has built its
\* document has one view-model per photo record it selected, and every
\* selected photo whose own analysis did not fail in the run has an analysis
\* in the store, whatever happened to the other photos.
C30_PhotoFailureIsIsolated ==
  \A r \in Runs :
    /\ failedAt[r] # "photos"
    /\ data[r] # <<>> =>
         /\ Len(data[r][1].photos) = Len(photos_db[r])
         /\ \A i \in DOMAIN photos_db[r] :
              LET u == photos_db[r][i].file_unique_id
              IN /\ data[r][1].photos[i].file_unique_id = u
                 /\ u \notin analysisFailed[r] => "" \notin StoredAnalysis(u)

\* The place of a step in the order Numbering, Collecting, Summarizing,
\* Analyzing, Assembled, Rendered.
StepRank(step) ==
  CASE step = "Numbering" -> 1
    [] step = "Collecting" -> 2
    [] step = "Summarizing" -> 3
    [] step = "Analyzing" -> 4
    [] step = "Assembled" -> 5
    [] step = "Rendered" -> 6

\* C31: every run enters its steps in the order Numbering, Collecting,
\* Summarizing, Analyzing, Assembled, Rendered: Numbering comes first, no step
\* is entered after a later one (so the summarizer is called before any photo
\* is analyzed), and the renderer is called only once the document is
\* assembled.
C31_StepsInPipelineOrder ==
  \A r \in Runs :
    /\ steps[r] # <<>> => steps[r][1] = "Numbering"
    /\ \A i, j \in DOMAIN steps[r] :
         i < j => StepRank(steps[r][i]) <= StepRank(steps[r][j])
    /\ \A j \in DOMAIN steps[r] :
         steps[r][j] = "Rendered" =>
           \E i \in 1..(j - 1) : steps[r][i] = "Assembled"

\* A run is inside a call of the generative-analysis collaborator.
AwaitingAnalysis(r) == loop = r

\* C32: a call of the generative-analysis collaborator is a suspension
\* point: while a run waits for its answer, a text or photo that arrives
\* can be handled and another queued run can start.
C32_OthersRunWhileAwaitingAnalysis ==
  \A r \in Runs :
    AwaitingAnalysis(r) =>
      /\ ingested < IngestBudget =>
            /\ ENABLED (\E text \in Texts : handle_message(text, TRUE))
            /\ ENABLED (\E u \in IngestUIDs : handle_photo(u, "", TRUE, TRUE, TRUE))
      /\ \A q \in Runs \ {r} :
            (Overlap /\ pc[q] = "scheduled") => ENABLED generate_report_id_select(q)

\* C33: every run that has started ends, by sending its artifact or in its
\* error handler, whether or not the remote collaborators answer.
C33_EveryRunTerminates ==
  \A r \in Runs : (started[r] > 0) ~> Ended(r)

\* ------------------------------------------------------------------ C34
\* An attempt whose _get_project_id returned a numeric id / listed the
\* projects and returned None
Resolved(f) == f.filter # 0
FailedToResolve(f) == f.listed /\ f.filter = 0

\* C34: once _get_project_id has resolved the identifier, every later call
\* returns that id and lists no projects; a resolution that fails, or finds
\* no project with the identifier, caches nothing and the next call lists
\* the projects again.
C34_ResolvedIdCachedFailureRetried ==
  \A i \in DOMAIN fetches :
    /\ \A j \in DOMAIN fetches :
         (i < j /\ Resolved(fetches[i])) =>
           /\ fetches[j].filter = fetches[i].filter
           /\ ~fetches[j].listed
    /\ (FailedToResolve(fetches[i]) /\ i + 1 \in DOMAIN fetches) =>
         /\ fetches[i].project_id = 0
         /\ fetches[i + 1].listed
    /\ listings = Cardinality({k \in DOMAIN fetches : fetches[k].listed})

\* A failed resolution, then one that succeeds, then a call served from the
\* cache: two listings for three calls.
C34_FailedThenResolvedThenCached ==
  /\ Len(fetches) = 3
  /\ FailedToResolve(fetches[1]) /\ fetches[2].listed /\ Resolved(fetches[2])
  /\ ~fetches[3].listed /\ fetches[3].filter = fetches[2].filter
  /\ listings = 2

\* ------------------------------------------------------------------ C35
\* The id of the project the adapter is configured for
ConfiguredProjectId ==
  ServerProjects[CHOOSE i \in DOMAIN ServerProjects :
                   ServerProjects[i].identifier = PROJECT_IDENTIFIER].id

\* C35: with a project identifier configured, every list get_work_packages
\* returns holds items of that project only, whether or not the id could be
\* resolved.
C35_OnlyConfiguredProjectItems ==
  project_identifier # None =>
    \A i \in DOMAIN fetches :
      fetches[i].outcome.kind = "return" =>
        \A k \in DOMAIN fetches[i].outcome.value :
          fetches[i].outcome.value[k].project = ConfiguredProjectId

\* ------------------------------------------------------------------ C36
\* The date directory of an output path
DateDirectory(path) == path[3]

\* C36: within one run the artifact's date directory is the day of the
\* document's period date (the day the identity, the photo key and the
\* message window were taken from), also when midnight passes during the run.
C36_OneCalendarDayPerRun ==
  \A r \in Runs :
    pc[r] = "send" => DateDirectory(pdf_path[r]) = data[r][1].date

\* ------------------------------------------------------------------ C37
\* A call of pdf_generator.generate_report is in flight in run r.
Rendering(r) == pc[r] \in {"render", "launching", "rendering", "printing"}

\* C37: each generate_report call holds a page of its own from new_page
\* until it returns or raises: no page is open while no call is in flight,
\* the page of a call in flight is open, and two calls never hold the same
\* page.
C37_PagePerCallClosedOnExit ==
  /\ (\A r \in Runs : ~Rendering(r)) => pages = {}
  /\ \A r \in Runs :
       /\ page[r] # 0 => (pc[r] = "printing" /\ page[r] \in pages)
       /\ pc[r] = "printing" => page[r] # 0
       /\ \A q \in Runs \ {r} : page[r] # 0 => page[q] # page[r]
  /\ Cardinality(pages) = Cardinality({r \in Runs : page[r] # 0})

\* The call of run 1 opened a page and failed, and its page is closed, while
\* the call of run 2 holds the second page.
C37_FailedCallClosedItsPage ==
  /\ pc[1] = "errored" /\ RenderFailed(1)
  /\ pagesOpened = 2
  /\ page[2] # 0 /\ pages = {page[2]}

\* ------------------------------------------------------------------ C38
\* A step that handles /report or /set_safety_channel of a user who is not
\* in ADMIN_IDS / that handles /report of an admin in the chat of trigger r
NonAdminCommand ==
  \/ \E r \in Runs, user \in Users \ ADMIN_IDS, replied \in BOOLEAN :
        manual_report(r, user, replied)
  \/ \E user \in Users \ ADMIN_IDS, chat_id \in ChatIds, committed \in BOOLEAN :
        set_safety_channel(user, chat_id, committed)
AdminReport(r) == \E user \in ADMIN_IDS : manual_report(r, user, TRUE)

====
